---- MODULE Spec2Model ----
(***************************************************************************)
(* gitpatcher: a model of the patch application engine                     *)
(* (src/src/apply_patches/email.rs), the commit-to-patch formatter         *)
(* (src/src/format_patches.rs, src/src/format_patches/format.rs) and the   *)
(* patch set regenerator with its trivial-change filter                    *)
(* (src/src/regenerate_patches/patch_file.rs, src/src/utils.rs).           *)
(*                                                                         *)
(* Text is modelled as sequences of one-character strings, files as        *)
(* sequences of lines, trees as functions from paths to entries.           *)
(***************************************************************************)
EXTENDS Integers, Sequences, FiniteSets, TLC

VARIABLES
    repo,     \* the target repository of apply_commit: commits, HEAD, index, working tree
    msg,      \* the parsed EmailMessage handed to apply_commit
    ac,       \* the frame of the running apply_commit call
    pre,      \* the target repository as it was when apply_commit was called
    origin,   \* round trip only: the commit the message was formatted from
    faults,   \* whether calls into the version-control backend may fail
    tp,       \* one call of is_trivial_patch_change: its arguments and result
    rg,       \* one run of regenerate_patches and the repositories it works on
    call      \* one call of a function of the library: its arguments and result

applyVars == <<repo, msg, ac, pre, origin, faults>>

\* the variables the apply engine never touches
nonApply == <<tp, rg, call>>

(***************************************************************************)
(* Bounds                                                                  *)
(***************************************************************************)
MaxDeltas == 2

(***************************************************************************)
(* Generic helpers                                                         *)
(***************************************************************************)
Min(a, b) == IF a <= b THEN a ELSE b

Range(s) == {s[i] : i \in DOMAIN s}

SeqsUpTo(S, n) == UNION {[1..k -> S] : k \in 0..n}

(***************************************************************************)
(* Paths, file contents, trees                                             *)
(***************************************************************************)
NoPath == <<>>
\* a path with no entry in a tree
NoEntry == [content |-> <<>>, mode |-> "absent"]

Path_a == <<"a">>
Path_b == <<"b">>
Path_abs == <<"/", "e">>

RelPaths == {Path_a, Path_b}
Paths == RelPaths \cup {Path_abs}

\* the order in which a tree diff lists its paths
PathOrder == <<Path_a, Path_b>>

\* std::path::Path::is_absolute on a unix path
is_absolute(p) == Len(p) > 0 /\ p[1] = "/"

FileModeBlob == "100644"
FileModeBlobExecutable == "100755"
Modes == {FileModeBlob, FileModeBlobExecutable}

NUL == "NUL"

\* git treats content holding a NUL byte as binary
is_binary(content) == \E i \in DOMAIN content : content[i] = NUL

EmptyTree == [p \in RelPaths |-> NoEntry]

(***************************************************************************)
(* diffy: unified-diff hunks applied by context matching                   *)
(* A hunk is [start |-> new_range.start, lines |-> Seq(<<tag, text>>)]     *)
(***************************************************************************)
RECURSIVE pre_image(_)
pre_image(lines) ==
    IF lines = <<>> THEN <<>>
    ELSE IF Head(lines)[1] \in {" ", "-"}
         THEN <<Head(lines)[2]>> \o pre_image(Tail(lines))
         ELSE pre_image(Tail(lines))

RECURSIVE post_image(_)
post_image(lines) ==
    IF lines = <<>> THEN <<>>
    ELSE IF Head(lines)[1] \in {" ", "+"}
         THEN <<Head(lines)[2]>> \o post_image(Tail(lines))
         ELSE post_image(Tail(lines))

\* an image line is <<text, patched>>; pos is 0-based
match_fragment(image, lines, pos) ==
    LET want == pre_image(lines)
        len == Len(want)
    IN /\ pos + len <= Len(image)
       /\ \A i \in 1..len : /\ ~image[pos + i][2]
                            /\ image[pos + i][1] = want[i]

\* the order in which find_position tries positions: pos itself, then
\* backwards and forwards alternately, backwards first
RECURSIVE interleave(_, _, _)
interleave(a, b, flag) ==
    IF a = <<>> /\ b = <<>> THEN <<>>
    ELSE IF flag
         THEN IF a # <<>> THEN <<Head(a)>> \o interleave(Tail(a), b, ~flag)
                          ELSE <<Head(b)>> \o interleave(a, Tail(b), ~flag)
         ELSE IF b # <<>> THEN <<Head(b)>> \o interleave(a, Tail(b), ~flag)
                          ELSE <<Head(a)>> \o interleave(Tail(a), b, ~flag)

search_order(pos, n) ==
    LET backward == [i \in 1..pos |-> pos - i]
        forward == [i \in 1..(IF n > pos + 1 THEN n - pos - 1 ELSE 0) |-> pos + i]
    IN <<pos>> \o interleave(backward, forward, TRUE)

\* the variant that looks only at the position the hunk header names
find_position_exact(image, hunk) ==
    LET start == IF hunk.start > 0 THEN hunk.start - 1 ELSE 0
        pos == Min(start, Len(image))
    IN IF match_fragment(image, hunk.lines, pos) THEN pos ELSE -1

\* the first position of the search order at which the hunk matches, or -1
find_position(image, hunk) ==
    LET start == IF hunk.start > 0 THEN hunk.start - 1 ELSE 0
        pos == Min(start, Len(image))
        order == search_order(pos, Len(image))
        hits == {k \in DOMAIN order : match_fragment(image, hunk.lines, order[k])}
    IN IF hits = {} THEN -1
       ELSE order[CHOOSE k \in hits : \A j \in hits : k <= j]

apply_hunk(image, hunk) ==
    LET pos == find_position(image, hunk)
        len == Len(pre_image(hunk.lines))
        post == post_image(hunk.lines)
    IN IF pos < 0 THEN [ok |-> FALSE, image |-> image]
       ELSE [ok |-> TRUE,
             image |-> SubSeq(image, 1, pos)
                        \o [i \in 1..Len(post) |-> <<post[i], TRUE>>]
                        \o SubSeq(image, pos + len + 1, Len(image))]

RECURSIVE apply_hunks(_, _)
apply_hunks(image, hunks) ==
    IF hunks = <<>> THEN [ok |-> TRUE, image |-> image]
    ELSE LET r == apply_hunk(image, Head(hunks))
         IN IF r.ok THEN apply_hunks(r.image, Tail(hunks)) ELSE r

\* diffy::apply_bytes
apply_bytes(base, hunks) ==
    LET r == apply_hunks([i \in 1..Len(base) |-> <<base[i], FALSE>>], hunks)
    IN [ok |-> r.ok, content |-> [i \in 1..Len(r.image) |-> r.image[i][1]]]


(***************************************************************************)
(* Deltas and messages                                                     *)
(***************************************************************************)
SupportedStatuses == {"Added", "Modified", "Renamed", "Copied"}
UnexpectedStatuses == {"Typechange"}
Statuses == SupportedStatuses \cup {"Deleted"} \cup UnexpectedStatuses

mkDelta(st, old, new, bin, wf, hunks, mode) ==
    [status |-> st, old_path |-> old, new_path |-> new, binary |-> bin,
     wellformed |-> wf, hunks |-> hunks, new_mode |-> mode]

\* impl TryFrom<git2::DiffFile> for DeltaFileDesc
DeltaFileDesc_try_from(path) ==
    IF path # NoPath /\ is_absolute(path) THEN "AbsolutePath" ELSE "ok"

\* DeltaDesc::from_git: the old file is converted first, then the new file
DeltaDesc_from_git(d) ==
    IF DeltaFileDesc_try_from(d.old_path) # "ok" THEN "AbsolutePath"
    ELSE DeltaFileDesc_try_from(d.new_path)

(***************************************************************************)
(* TreeUpdateBuilder: a list of pending edits, applied by create_updated   *)
(***************************************************************************)
OpRemove(path) == [op |-> "remove", path |-> path, entry |-> NoEntry]
OpUpsert(path, content, mode) ==
    [op |-> "upsert", path |-> path, entry |-> [content |-> content, mode |-> mode]]

RECURSIVE create_updated(_, _)
create_updated(tree, ops) ==
    IF ops = <<>> THEN [ok |-> TRUE, tree |-> tree]
    ELSE LET o == Head(ops)
         IN IF o.op = "remove"
            THEN IF tree[o.path] = NoEntry
                 THEN [ok |-> FALSE, tree |-> tree]
                 ELSE create_updated([tree EXCEPT ![o.path] = NoEntry], Tail(ops))
            ELSE create_updated([tree EXCEPT ![o.path] = o.entry], Tail(ops))

(***************************************************************************)
(* EmailMessage::apply_delta                                               *)
(* git_ok: whether the backend call that writes the blob succeeds          *)
(***************************************************************************)
DeltaResult(err, ops, wrote) == [err |-> err, new_tree |-> ops, wrote |-> wrote]

apply_delta(d, orig_tree, result_tree, git_ok) ==
    IF d.status = "Deleted"
    THEN DeltaResult("none", Append(result_tree, OpRemove(d.old_path)), 0)
    ELSE IF d.status \notin SupportedStatuses
    THEN DeltaResult("UnexpectedDeltaStatus", result_tree, 0)
    ELSE IF d.binary
    THEN DeltaResult("BinaryDelta", result_tree, 0)
    ELSE IF ~d.wellformed
    THEN DeltaResult("FailParseGitDelta", result_tree, 0)
    ELSE LET has_old == d.old_path # NoPath /\ d.status # "Added"
         IN IF has_old /\ orig_tree[d.old_path] = NoEntry
            THEN DeltaResult("MissingOriginalFile", result_tree, 0)
            ELSE LET existing_bytes == IF has_old THEN orig_tree[d.old_path].content
                                                  ELSE <<>>
                     patched == apply_bytes(existing_bytes, d.hunks)
                 IN IF ~patched.ok
                    THEN DeltaResult("FailApplyPatch", result_tree, 0)
                    ELSE IF ~git_ok
                    THEN DeltaResult("UnexpectedGit", result_tree, 0)
                    ELSE DeltaResult("none",
                            Append(result_tree,
                                   OpUpsert(d.new_path, patched.content, FileModeBlob)),
                            1)

\* EmailMessage::full_message, as a sequence of lines
full_message(m) ==
    IF m.message_tail = <<>> THEN <<m.message_summary>>
    ELSE <<m.message_summary, "">> \o m.message_tail

\* git2::Signature::new rejects empty names and names holding angle brackets
signature_ok(author) ==
    /\ author.name # <<>> /\ author.email # <<>>
    /\ \A i \in DOMAIN author.name : author.name[i] \notin {"<", ">"}
    /\ \A i \in DOMAIN author.email : author.email[i] \notin {"<", ">"}

mkSignature(m) ==
    [name |-> m.author.name, email |-> m.author.email,
     time |-> m.date.unix_timestamp, offset |-> m.date.offset_minutes]

(***************************************************************************)
(* EmailMessage::apply_commit, one action per fallible step                *)
(***************************************************************************)
GitOutcomes == IF faults THEN BOOLEAN ELSE {TRUE}

IdleFrame ==
    [pc |-> "idle", result |-> "none", cause |-> "none", delta_idx |-> 0,
     tree |-> EmptyTree, new_tree |-> <<>>, updated_tree |-> EmptyTree,
     head_commit |-> 0, commit_id |-> 0]

Fail(frame, result, cause) ==
    [frame EXCEPT !.pc = "done", !.result = result, !.cause = cause]

HeadTree(r) == IF r.head = 0 THEN EmptyTree ELSE r.commits[r.head].tree

\* a variant that takes the tree of the HEAD commit as the base tree
ApplyCommitStart_FromHead ==
    /\ ac.pc = "idle"
    /\ \E ok \in GitOutcomes :
         ac' = IF ok THEN [ac EXCEPT !.pc = "deltas", !.tree = HeadTree(repo)]
                     ELSE Fail(ac, "UnexpectedGit", "none")
    /\ pre' = repo
    /\ UNCHANGED <<repo, msg, origin, faults, nonApply>>

\* lines 282-284: write the index as the base tree
ApplyCommitStart ==
    /\ ac.pc = "idle"
    /\ \E ok \in GitOutcomes :
         ac' = IF ok THEN [ac EXCEPT !.pc = "deltas", !.tree = repo.index]
                     ELSE Fail(ac, "UnexpectedGit", "none")
    /\ pre' = repo
    /\ UNCHANGED <<repo, msg, origin, faults, nonApply>>

\* a variant that passes over a delta that failed and carries on
ApplyCommitDelta_SkipFailed ==
    /\ ac.pc = "deltas"
    /\ ac.delta_idx < Len(msg.deltas)
    /\ \E ok \in GitOutcomes :
         LET d == msg.deltas[ac.delta_idx + 1]
             desc == DeltaDesc_from_git(d)
             r == apply_delta(d, ac.tree, ac.new_tree, ok)
         IN IF desc # "ok"
            THEN /\ ac' = Fail(ac, "ForbiddenAbsolutePath", "none")
                 /\ repo' = repo
            ELSE /\ ac' = [ac EXCEPT !.delta_idx = @ + 1, !.new_tree = r.new_tree]
                 /\ repo' = [repo EXCEPT !.blob_writes = @ + r.wrote]
    /\ UNCHANGED <<msg, pre, origin, faults, nonApply>>

\* lines 285-299: one iteration of the loop over the deltas
ApplyCommitDelta ==
    /\ ac.pc = "deltas"
    /\ ac.delta_idx < Len(msg.deltas)
    /\ \E ok \in GitOutcomes :
         LET d == msg.deltas[ac.delta_idx + 1]
             desc == DeltaDesc_from_git(d)
             r == apply_delta(d, ac.tree, ac.new_tree, ok)
         IN IF desc # "ok"
            THEN /\ ac' = Fail(ac, "ForbiddenAbsolutePath", "none")
                 /\ repo' = repo
            ELSE IF r.err # "none"
            THEN /\ ac' = Fail(ac, "FailDelta", r.err)
                 /\ repo' = repo
            ELSE /\ ac' = [ac EXCEPT !.delta_idx = @ + 1, !.new_tree = r.new_tree]
                 /\ repo' = [repo EXCEPT !.blob_writes = @ + r.wrote]
    /\ UNCHANGED <<msg, pre, origin, faults, nonApply>>

\* lines 300-303: build the updated tree from the base tree and the edits
ApplyCommitBuildTree ==
    /\ ac.pc = "deltas"
    /\ ac.delta_idx = Len(msg.deltas)
    /\ \E ok \in GitOutcomes :
         LET r == create_updated(ac.tree, ac.new_tree)
         IN ac' = IF ok /\ r.ok
                  THEN [ac EXCEPT !.pc = "built", !.updated_tree = r.tree]
                  ELSE Fail(ac, "FailBuildTree", "none")
    /\ UNCHANGED <<repo, msg, pre, origin, faults, nonApply>>

\* lines 305-310: the author signature
ApplyCommitSignature ==
    /\ ac.pc = "built"
    /\ ac' = IF signature_ok(msg.author)
             THEN [ac EXCEPT !.pc = "signed"]
             ELSE Fail(ac, "UnexpectedGit", "none")
    /\ UNCHANGED <<repo, msg, pre, origin, faults, nonApply>>

\* line 312: resolve HEAD to a commit
ApplyCommitHead ==
    /\ ac.pc = "signed"
    /\ \E ok \in GitOutcomes :
         ac' = IF ok /\ repo.head # 0
               THEN [ac EXCEPT !.pc = "resolved", !.head_commit = repo.head]
               ELSE Fail(ac, "UnexpectedGit", "none")
    /\ UNCHANGED <<repo, msg, pre, origin, faults, nonApply>>

\* lines 313-322: create the commit and move HEAD to it
ApplyCommitCommit ==
    /\ ac.pc = "resolved"
    /\ \E ok \in GitOutcomes :
         IF ok
         THEN LET c == [tree |-> ac.updated_tree,
                        parents |-> <<ac.head_commit>>,
                        author |-> mkSignature(msg),
                        committer |-> mkSignature(msg),
                        message |-> full_message(msg)]
              IN /\ repo' = [repo EXCEPT !.commits = Append(@, c),
                                         !.head = Len(repo.commits) + 1]
                 /\ ac' = [ac EXCEPT !.pc = "committed",
                                     !.commit_id = Len(repo.commits) + 1]
         ELSE /\ repo' = repo
              /\ ac' = Fail(ac, "UnexpectedGit", "none")
    /\ UNCHANGED <<msg, pre, origin, faults, nonApply>>

\* line 323: look the new commit up
ApplyCommitFind ==
    /\ ac.pc = "committed"
    /\ \E ok \in GitOutcomes :
         ac' = IF ok THEN [ac EXCEPT !.pc = "found"]
                     ELSE Fail(ac, "UnexpectedGit", "none")
    /\ UNCHANGED <<repo, msg, pre, origin, faults, nonApply>>

\* lines 324-327: hard reset to the new commit
ApplyCommitReset ==
    /\ ac.pc = "found"
    /\ \E ok \in GitOutcomes :
         IF ok
         THEN /\ repo' = [repo EXCEPT !.index = repo.commits[ac.commit_id].tree,
                                      !.worktree = repo.commits[ac.commit_id].tree]
              /\ ac' = [ac EXCEPT !.pc = "done", !.result = "Ok"]
         ELSE /\ repo' = repo
              /\ ac' = Fail(ac, "UnexpectedGit", "none")
    /\ UNCHANGED <<msg, pre, origin, faults, nonApply>>

NextApply ==
    \/ ApplyCommitStart
    \/ ApplyCommitDelta
    \/ ApplyCommitBuildTree
    \/ ApplyCommitSignature
    \/ ApplyCommitHead
    \/ ApplyCommitCommit
    \/ ApplyCommitFind
    \/ ApplyCommitReset


(***************************************************************************)
(* The commit-to-patch formatter (PatchFormatter::generate), followed by   *)
(* EmailMessage::parse of the text it produced                             *)
(***************************************************************************)
\* length of the longest common prefix of two sequences
CommonPrefix(a, b) ==
    LET ks == {k \in 0..Min(Len(a), Len(b)) : \A i \in 1..k : a[i] = b[i]}
    IN CHOOSE k \in ks : \A j \in ks : j <= k

\* length of the longest common suffix that does not overlap the prefix
CommonSuffix(a, b, skip) ==
    LET ks == {k \in 0..(Min(Len(a), Len(b)) - skip) :
                  \A i \in 0..(k - 1) : a[Len(a) - i] = b[Len(b) - i]}
    IN CHOOSE k \in ks : \A j \in ks : j <= k

Tagged(tag, lines) == [i \in 1..Len(lines) |-> <<tag, lines[i]>>]

\* the hunks of a text diff; files here are shorter than the three lines of
\* context, so one hunk covers the whole file
diff_hunks(old, new) ==
    IF old = new THEN <<>>
    ELSE LET p == CommonPrefix(old, new)
             q == CommonSuffix(old, new, p)
         IN <<[start |-> IF new = <<>> THEN 0 ELSE 1,
               lines |-> Tagged(" ", SubSeq(old, 1, p))
                          \o Tagged("-", SubSeq(old, p + 1, Len(old) - q))
                          \o Tagged("+", SubSeq(new, p + 1, Len(new) - q))
                          \o Tagged(" ", SubSeq(old, Len(old) - q + 1, Len(old)))]>>

\* one delta of repo.diff_tree_to_tree(last_tree, tree), no rename detection
diff_delta(path, old, new) ==
    LET bin == is_binary(old.content) \/ is_binary(new.content)
        st == IF old = NoEntry THEN "Added"
              ELSE IF new = NoEntry THEN "Deleted" ELSE "Modified"
    IN mkDelta(st, path, path, bin, TRUE,
               IF bin THEN <<>> ELSE diff_hunks(old.content, new.content),
               new.mode)

RECURSIVE diff_tree_to_tree(_, _, _)
diff_tree_to_tree(last_tree, tree, paths) ==
    IF paths = <<>> THEN <<>>
    ELSE LET p == Head(paths)
             rest == diff_tree_to_tree(last_tree, tree, Tail(paths))
         IN IF last_tree[p] = tree[p] THEN rest
            ELSE <<diff_delta(p, last_tree[p], tree[p])>> \o rest

\* CommitMessage summary and body of a message held as lines
CommitMessage_parse(full) ==
    [summary |-> Head(full),
     body |-> SelectSeq(Tail(full), LAMBDA l : l # "")]

\* PatchFormatter::generate and cleanup_patch: the cleanup needs a line that
\* starts with "diff", which only a non-empty diff has
generate(commit, last_tree) ==
    LET deltas == diff_tree_to_tree(last_tree, commit.tree, PathOrder)
        message == CommitMessage_parse(commit.message)
    IN IF deltas = <<>>
       THEN [ok |-> FALSE, email |-> <<>>]
       ELSE [ok |-> TRUE,
             email |-> [author |-> [name |-> commit.author.name,
                                    email |-> commit.author.email],
                        date |-> [unix_timestamp |-> commit.author.time,
                                  offset_minutes |-> commit.author.offset],
                        message_summary |-> message.summary,
                        message_tail |-> message.body,
                        deltas |-> deltas]]

(***************************************************************************)
(* Text: a string is a sequence of one-character strings                   *)
(***************************************************************************)
Whitespace == {" ", "\t"}

HexDigits == {"0", "1", "2", "3", "4", "5", "6", "7", "8", "9",
              "a", "b", "c", "d", "e", "f", "A", "B", "C", "D", "E", "F"}

starts_with(s, prefix) ==
    /\ Len(s) >= Len(prefix)
    /\ \A i \in 1..Len(prefix) : s[i] = prefix[i]

ends_with(s, suffix) ==
    /\ Len(s) >= Len(suffix)
    /\ \A i \in 1..Len(suffix) : s[Len(s) - Len(suffix) + i] = suffix[i]

\* the 1-based positions at which needle occurs in s
Occurrences(s, needle) ==
    {i \in 1..(Len(s) + 1) : starts_with(SubSeq(s, i, Len(s)), needle)}

contains_str(s, needle) == Occurrences(s, needle) # {}

\* str::trim
trim(s) ==
    LET keep == {i \in 1..Len(s) : s[i] \notin Whitespace}
    IN IF keep = {} THEN <<>>
       ELSE SubSeq(s, CHOOSE i \in keep : \A j \in keep : i <= j,
                      CHOOSE i \in keep : \A j \in keep : j <= i)

all_whitespace(s) == \A i \in 1..Len(s) : s[i] \in Whitespace

Str_separator == <<"-", "-">>
Str_old_header == <<"-", "-", "-", " ", "a">>
Str_new_header == <<"+", "+", "+", " ", "b">>
Str_From == <<"F", "r", "o", "m", " ">>
Str_index == <<"i", "n", "d", "e", "x">>

(***************************************************************************)
(* RememberLast<T, LIMIT>: the items are kept oldest first                 *)
(***************************************************************************)
RememberLast_new == <<>>

\* the variant that overwrites the newest item of a full buffer
remember_overwrite_newest(last, element, LIMIT) ==
    IF Len(last) < LIMIT THEN Append(last, element)
    ELSE Append(SubSeq(last, 1, Len(last) - 1), element)

remember(last, element, LIMIT) ==
    IF Len(last) < LIMIT THEN Append(last, element)
    ELSE Append(Tail(last), element)

\* back(offset) indexes last[len - offset - 1]; out of range it panics
back_in_range(last, offset) == offset < Len(last)

back(last, offset) == last[Len(last) - offset]

(***************************************************************************)
(* The trivial-change filter                                               *)
(***************************************************************************)
CHANGE_MARKERS == {"+", "-"}

RememberLimit == 5

\* recognize(tuple((take_until("From "), take_while1(is_hex_digit)))):
\* take_until stops in front of the first "From ", and the hex digits are
\* taken from there
from_parser(line) ==
    LET at == Occurrences(line, Str_From)
    IN /\ at # {}
       /\ line[CHOOSE i \in at : \A j \in at : i <= j] \in HexDigits

\* recognize(tuple((opt(take(1usize)), tag("index")))): the optional take
\* consumes one byte whenever there is one
index_parser(line) ==
    IF Len(line) >= 1 THEN starts_with(Tail(line), Str_index)
    ELSE starts_with(line, Str_index)

is_trivial_line(line) ==
    IF contains_str(line, Str_old_header) \/ contains_str(line, Str_new_header)
    THEN TRUE
    ELSE from_parser(line) \/ index_parser(line)

\* the loop of is_trivial_patch_change over the lines of the diff
RECURSIVE remember_changes(_, _)
remember_changes(lines, last) ==
    IF lines = <<>> THEN last
    ELSE LET line == Head(lines)
         IN IF ~(line # <<>> /\ line[1] \in CHANGE_MARKERS)
            THEN remember_changes(Tail(lines), last)
            ELSE IF is_trivial_line(line)
            THEN remember_changes(Tail(lines), last)
            ELSE remember_changes(Tail(lines), remember(last, line, RememberLimit))

\* line[1..].trim()
payload(line) == trim(Tail(line))

Bool(b) == IF b THEN "true" ELSE "false"

\* the final assertion and comparison
ignored_verdict(ignored_changes, last) ==
    IF ~(ignored_changes <= Len(last)) THEN "panic"
    ELSE Bool(ignored_changes = Len(last))

\* the decision over the remembered lines: "true", "false", or "panic" when
\* back() is called out of range or the assertion fails
trivial_decision(last, git_ver) ==
    IF Len(last) = 0 THEN "true"
    ELSE IF Len(last) = 1 THEN Bool(payload(back(last, 0)) = git_ver)
    ELSE LET blank == IF payload(back(last, 0)) = <<>> THEN 1 ELSE 0
         IN IF payload(back(last, blank)) # git_ver
            THEN ignored_verdict(blank, last)
            ELSE LET ignored == blank + 1
                 IN IF ~(Len(last) + ignored >= 2)
                    THEN ignored_verdict(ignored + 1, last)
                    ELSE IF ~back_in_range(last, ignored) THEN "panic"
                    ELSE IF payload(back(last, ignored)) # Str_separator
                    THEN ignored_verdict(ignored + 1, last)
                    ELSE IF ~back_in_range(last, ignored + 2) THEN "panic"
                    ELSE IF payload(back(last, ignored + 2)) = Str_separator
                    THEN ignored_verdict(ignored + 3, last)
                    ELSE ignored_verdict(ignored + 1, last)

is_trivial_patch_change(diff, git_ver) ==
    trivial_decision(remember_changes(diff, RememberLast_new), git_ver)

(***************************************************************************)
(* Patch file names                                                        *)
(***************************************************************************)
Digits == <<"0", "1", "2", "3", "4", "5", "6", "7", "8", "9">>

AsciiLetters ==
    {"a", "b", "c", "d", "e", "f", "g", "h", "i", "j", "k", "l", "m",
     "n", "o", "p", "q", "r", "s", "t", "u", "v", "w", "x", "y", "z",
     "A", "B", "C", "D", "E", "F", "G", "H", "I", "J", "K", "L", "M",
     "N", "O", "P", "Q", "R", "S", "T", "U", "V", "W", "X", "Y", "Z"}

is_ascii_alphanumeric(c) == c \in AsciiLetters \cup Range(Digits)

Str_patch_ext == <<".", "p", "a", "t", "c", "h">>

MAX_LENGTH == 52

RECURSIVE decimal(_)
decimal(n) ==
    IF n < 10 THEN <<Digits[n + 1]>>
    ELSE decimal(n \div 10) \o <<Digits[(n % 10) + 1]>>

\* the variant that writes the number without padding
zero_padded4_unpadded(n) == decimal(n)

\* format!("{:04}", n)
zero_padded4(n) ==
    LET d == decimal(n)
    IN [i \in 1..(IF Len(d) < 4 THEN 4 - Len(d) ELSE 0) |-> "0"] \o d

\* the loop of patch_file_name over the characters of the summary
RECURSIVE sanitize(_, _)
sanitize(chars, sanitized_name) ==
    IF chars = <<>> THEN sanitized_name
    ELSE LET c == Head(chars)
         IN IF is_ascii_alphanumeric(c) \/ c = "." \/ c = "_"
            THEN sanitize(Tail(chars), Append(sanitized_name, c))
            ELSE IF c = "(" /\ Len(chars) >= 2 /\ chars[2] = ")"
            THEN sanitize(Tail(Tail(chars)), sanitized_name)
            ELSE IF ~ends_with(sanitized_name, <<"-">>)
            THEN sanitize(Tail(chars), Append(sanitized_name, "-"))
            ELSE sanitize(Tail(chars), sanitized_name)

\* String::truncate
truncate(s, new_len) == IF new_len < Len(s) THEN SubSeq(s, 1, new_len) ELSE s

\* truncate(rfind(|c| c != '.' && c != '-').unwrap_or(0) + 1)
strip_trailing(s) ==
    LET keep == {i \in 1..Len(s) : s[i] # "." /\ s[i] # "-"}
        rfind == IF keep = {} THEN 0
                 ELSE (CHOOSE i \in keep : \A j \in keep : j <= i) - 1
    IN truncate(s, rfind + 1)

\* drain(0..find(|c| c != '-').unwrap_or(len))
strip_leading(s) ==
    LET keep == {i \in 1..Len(s) : s[i] # "-"}
        first_valid == IF keep = {} THEN Len(s)
                       ELSE (CHOOSE i \in keep : \A j \in keep : i <= j) - 1
    IN SubSeq(s, first_valid + 1, Len(s))

\* the variant without the length limit
sanitized_part_unbounded(summary) ==
    strip_leading(strip_trailing(sanitize(summary, <<>>)))

sanitized_part(summary) ==
    truncate(strip_leading(strip_trailing(sanitize(summary, <<>>))), MAX_LENGTH)

patch_file_name(summary, patch_no) ==
    zero_padded4(patch_no) \o <<"-">> \o sanitized_part(summary) \o Str_patch_ext

\* usize::from_str: an optional '+', then one or more decimal digits
RECURSIVE digits_value(_, _)
digits_value(s, acc) ==
    IF s = <<>> THEN acc
    ELSE digits_value(Tail(s),
                      10 * acc + (CHOOSE d \in 0..9 : Digits[d + 1] = Head(s)))

usize_from_str(s) ==
    LET body == IF s # <<>> /\ Head(s) = "+" THEN Tail(s) ELSE s
    IN IF body # <<>> /\ \A i \in 1..Len(body) : body[i] \in Range(Digits)
       THEN [ok |-> TRUE, value |-> digits_value(body, 0)]
       ELSE [ok |-> FALSE, value |-> 0]

\* PatchFile::parse
PatchFile_parse(file_name) ==
    IF Len(file_name) >= 5 /\ file_name[5] = "-" /\ ends_with(file_name, Str_patch_ext)
    THEN LET index == usize_from_str(SubSeq(file_name, 1, 4))
         IN [ok |-> index.ok, index |-> index.value, name |-> file_name]
    ELSE [ok |-> FALSE, index |-> 0, name |-> file_name]

(***************************************************************************)
(* The patch directory, and what the formatter writes into it              *)
(* A directory is a function from file names to contents (lines)           *)
(***************************************************************************)
EmptyDir == [n \in {} |-> <<>>]

WriteFile(dir, name, content) ==
    [n \in DOMAIN dir \cup {name} |-> IF n = name THEN content ELSE dir[n]]

RemoveFile(dir, name) == [n \in DOMAIN dir \ {name} |-> dir[n]]

Str_author_line == <<"F", "r", "o", "m", ":", " ", "A">>
Str_subject == <<"S", "u", "b", "j", "e", "c", "t", ":", " ",
                 "[", "P", "A", "T", "C", "H", "]", " ">>
Str_diff == <<"d", "i", "f", "f">>

\* the text of one patch after cleanup_patch: header, author, subject, the
\* two blank lines around the (empty) rest of the message, the diff, and the
\* footer the renderer appends: separator, tool version, blank line
patch_text(commit, hash, git_ver) ==
    <<Str_From \o <<hash>>,
      Str_author_line,
      Str_subject \o commit.summary,
      <<>>,
      <<>>,
      Str_diff,
      <<"+">> \o commit.body,
      Str_separator,
      git_ver,
      <<>>>>

\* the tool version a patch file ends with (lines 204-221)
git_version(content) ==
    LET last == SubSeq(content, Len(content) - 1, Len(content))
    IN IF all_whitespace(last[2]) THEN trim(last[1]) ELSE trim(last[2])

\* the line diff of two files of the same shape: the lines are aligned by
\* position, each run of changed lines lists its removals before its additions
RECURSIVE diff_aligned(_, _, _, _)
diff_aligned(a, b, minus, plus) ==
    IF a = <<>> \/ b = <<>>
    THEN minus \o Tagged("-", a) \o plus \o Tagged("+", b)
    ELSE IF Head(a) = Head(b)
    THEN minus \o plus \o <<<<" ", Head(a)>>>>
         \o diff_aligned(Tail(a), Tail(b), <<>>, <<>>)
    ELSE diff_aligned(Tail(a), Tail(b),
                      Append(minus, <<"-", Head(a)>>),
                      Append(plus, <<"+", Head(b)>>))

Str_dev_null == <<"-", "-", "-", " ", "/", "d", "e", "v", "/", "n", "u", "l", "l">>

\* the text collected for one delta of diff_tree_to_index (lines 186-198):
\* the file header, then every line with its origin character in front
delta_text(in_head, old, new) ==
    LET body == diff_aligned(old, new, <<>>, <<>>)
    IN <<IF in_head THEN Str_old_header ELSE Str_dev_null, Str_new_header>>
       \o [i \in 1..Len(body) |-> <<body[i][1]>> \o body[i][2]]

\* PatchFileSet::reload_files: the .patch entries of the directory, sorted by
\* index; entries with equal indices stay in directory order, which is any order
RECURSIVE SetToSeqs(_)
SetToSeqs(S) ==
    IF S = {} THEN {<<>>}
    ELSE UNION {{<<x>> \o rest : rest \in SetToSeqs(S \ {x})} : x \in S}

PatchNames(dir) == {n \in DOMAIN dir : ends_with(n, Str_patch_ext)}

reload_files(dir) ==
    LET names == PatchNames(dir)
    IN IF \E n \in names : ~PatchFile_parse(n).ok
       THEN [ok |-> FALSE, lists |-> {<<>>}]
       ELSE [ok |-> TRUE,
             lists |-> {[i \in 1..Len(q) |-> [index |-> PatchFile_parse(q[i]).index,
                                              path |-> q[i]]] :
                          q \in {o \in SetToSeqs(names) :
                                   \A i \in 1..(Len(o) - 1) :
                                      PatchFile_parse(o[i]).index
                                         <= PatchFile_parse(o[i + 1]).index}}]

(***************************************************************************)
(* Inputs                                                                  *)
(***************************************************************************)
Author_ok == [name |-> <<"A">>, email |-> <<"a", "@", "b">>]
Author_bad == [name |-> <<"A", ">">>, email |-> <<"a", "@", "b">>]

Sig0 == [name |-> <<"U">>, email |-> <<"u", "@", "b">>, time |-> 0, offset |-> 0]

File_x == [content |-> <<"x">>, mode |-> FileModeBlob]
File_z == [content |-> <<"z">>, mode |-> FileModeBlob]
File_zx == [content |-> <<"z", "x">>, mode |-> FileModeBlobExecutable]

Tree_a == [EmptyTree EXCEPT ![Path_a] = File_x]
Tree_ab == [EmptyTree EXCEPT ![Path_a] = File_z, ![Path_b] = File_zx]

Hunk_add_x == [start |-> 1, lines |-> <<<<"+", "x">>>>]
Hunk_x_to_y == [start |-> 1, lines |-> <<<<"-", "x">>, <<"+", "y">>>>]

\* the deltas a parsed message may hold
DeltaChoices ==
    {mkDelta("Added", old, new, bin, TRUE, <<Hunk_add_x>>, FileModeBlob) :
        old \in {NoPath, Path_b}, new \in {Path_b}, bin \in BOOLEAN}
    \cup {mkDelta("Modified", p, p, FALSE, wf, <<Hunk_x_to_y>>, FileModeBlob) :
        p \in RelPaths, wf \in BOOLEAN}
    \cup {mkDelta(st, p, p, FALSE, TRUE, <<>>, FileModeBlob) :
        st \in {"Deleted", "Typechange"}, p \in {Path_a, Path_abs}}
    \cup {mkDelta(st, Path_a, new, FALSE, TRUE, <<Hunk_x_to_y>>, FileModeBlob) :
        st \in {"Renamed", "Copied"}, new \in {Path_b}}
    \cup {mkDelta("Added", Path_abs, Path_abs, FALSE, TRUE, <<Hunk_add_x>>, FileModeBlob),
          mkDelta("Renamed", Path_a, Path_abs, FALSE, TRUE, <<Hunk_x_to_y>>, FileModeBlob),
          mkDelta("Modified", Path_abs, Path_abs, FALSE, TRUE, <<Hunk_x_to_y>>, FileModeBlob)}

Messages ==
    [author : {Author_ok, Author_bad},
     date : {[unix_timestamp |-> 7, offset_minutes |-> 60]},
     message_summary : {"s"},
     message_tail : {<<>>, <<"t">>},
     deltas : SeqsUpTo(DeltaChoices, MaxDeltas)]

NoMessage ==
    [author |-> Author_ok, date |-> [unix_timestamp |-> 0, offset_minutes |-> 0],
     message_summary |-> "s", message_tail |-> <<>>, deltas |-> <<>>]

mkCommit(tree, parents, sig, message) ==
    [tree |-> tree, parents |-> parents, author |-> sig, committer |-> sig,
     message |-> message]

mkRepo(commits, index) ==
    [commits |-> commits, head |-> Len(commits), index |-> index,
     worktree |-> index, blob_writes |-> 0]

NoOrigin == mkCommit(EmptyTree, <<>>, Sig0, <<"s">>)

\* no call of the filter or of regenerate_patches is in progress
TpIdle == [pc |-> "idle"]
RgIdle == [pc |-> "idle"]
CallIdle == [pc |-> "idle"]

\* apply_commit on a repository with one commit, whose index may hold staged
\* changes, for any message
InitApply ==
    /\ \E t \in {Tree_a, Tree_ab}, i \in {Tree_a, Tree_ab} :
         repo = mkRepo(<<mkCommit(t, <<>>, Sig0, <<"s">>)>>, i)
    /\ msg \in Messages
    /\ ac = IdleFrame
    /\ pre = repo
    /\ origin = NoOrigin
    /\ faults = TRUE
    /\ tp = TpIdle
    /\ rg = RgIdle
    /\ call = CallIdle

vars == <<repo, msg, ac, pre, origin, faults, tp, rg, call>>

Spec == InitApply /\ [][NextApply]_vars


(***************************************************************************)
(* Round trip: format a commit against its parent, parse, apply            *)
(***************************************************************************)
RoundTripContents == {<<"x">>, <<"y", "x">>, <<NUL>>}
RoundTripEntries == {NoEntry} \cup [content : RoundTripContents, mode : Modes]
RoundTripTrees == [RelPaths -> RoundTripEntries]

SigC == [name |-> <<"A">>, email |-> <<"a", "@", "b">>, time |-> 7, offset |-> 60]

\* HEAD, index and working tree are at P; C is a commit with single parent P
InitRoundTrip ==
    /\ \E P \in RoundTripTrees, C \in RoundTripTrees :
         /\ repo = mkRepo(<<mkCommit(P, <<>>, Sig0, <<"s">>)>>, P)
         /\ origin = mkCommit(C, <<1>>, SigC, <<"s", "", "t">>)
    /\ msg = NoMessage
    /\ ac = [IdleFrame EXCEPT !.pc = "format"]
    /\ pre = repo
    /\ faults = FALSE
    /\ tp = TpIdle
    /\ rg = RgIdle
    /\ call = CallIdle

FormatAndParse ==
    /\ ac.pc = "format"
    /\ LET r == generate(origin, HeadTree(repo))
       IN IF r.ok
          THEN /\ msg' = r.email
               /\ ac' = [ac EXCEPT !.pc = "idle"]
          ELSE /\ msg' = msg
               /\ ac' = Fail(ac, "PatchCleanupError", "none")
    /\ UNCHANGED <<repo, pre, origin, faults, nonApply>>

NextRoundTrip == FormatAndParse \/ NextApply

SpecRoundTrip == InitRoundTrip /\ [][NextRoundTrip]_vars

(***************************************************************************)
(* The trivial-change filter on its own                                    *)
(***************************************************************************)
MaxDiffLines == 3

Version_1 == <<"g", "1">>
Version_2 == <<"g", "2">>
Versions == {Version_1, Version_2}

\* lines a diff of two patch files may hold: the version footer (old version
\* removed, new version added, blank line, separator), content lines, a
\* context line, a file header and a patch header
DiffVocabulary ==
    {<<"-">> \o Version_1, <<"+">> \o Version_2, <<"+">>,
     <<"+">> \o Str_separator, <<"-">> \o Str_separator,
     <<"+", "x">>, <<"-", "x">>, <<" ", "x">>,
     Str_old_header, <<"+">> \o Str_From \o <<"a">>}

\* no apply_commit is in progress
IdleRepo == mkRepo(<<mkCommit(EmptyTree, <<>>, Sig0, <<"s">>)>>, EmptyTree)

ApplyIdle ==
    /\ repo = IdleRepo
    /\ msg = NoMessage
    /\ ac = [IdleFrame EXCEPT !.pc = "off"]
    /\ pre = IdleRepo
    /\ origin = NoOrigin
    /\ faults = FALSE

InitTrivial ==
    /\ ApplyIdle
    /\ rg = RgIdle
    /\ call = CallIdle
    /\ \E diff \in SeqsUpTo(DiffVocabulary, MaxDiffLines) :
         tp = [pc |-> "call", diff |-> diff, old_ver |-> Version_1,
               git_ver |-> Version_2, result |-> "none"]

CallIsTrivialPatchChange ==
    /\ tp.pc = "call"
    /\ tp' = [tp EXCEPT !.pc = "done",
                        !.result = is_trivial_patch_change(tp.diff, tp.git_ver)]
    /\ UNCHANGED <<applyVars, rg, call>>

NextTrivial == CallIsTrivialPatchChange

SpecTrivial == InitTrivial /\ [][NextTrivial]_vars

(***************************************************************************)
(* regenerate_patches                                                      *)
(***************************************************************************)
MaxCommits == 2

RepositoryStates ==
    {"Clean", "Merge", "Revert", "RevertSequence", "CherryPick",
     "CherryPickSequence", "Bisect", "Rebase", "RebaseInteractive",
     "RebaseMerge", "ApplyMailbox", "ApplyMailboxOrRebase"}

RebaseStates == {"Rebase", "RebaseInteractive"}

\* no rebase is in progress in a repository
NoRebase == -1

Summary_ab == <<"a", " ", "b">>
Summary_c == <<"c", "(", ")", ".">>
Summaries == {Summary_ab, Summary_c}

\* the body of a commit is the line its diff adds; a commit that changes no
\* file has an empty diff
NoChanges == <<>>

Commits == [summary : Summaries, body : {<<"x">>, <<"y">>, NoChanges}]

\* the commits the committed patch directory was generated from
EarlierCommits == [summary : Summaries, body : {<<"x">>}]

Hashes == {"a", "b"}

\* the directory generate_all leaves when it starts from an empty one
GeneratedDir(commits, hash, git_ver) ==
    LET name(i) == patch_file_name(commits[i].summary, i)
    IN [n \in {name(i) : i \in DOMAIN commits} |->
          patch_text(commits[CHOOSE i \in DOMAIN commits : name(i) = n], hash, git_ver)]

\* the state at the call of regenerate_patches: head is the patch directory in
\* the HEAD commit of the containing repository (head_dir: the HEAD tree has
\* an entry for it), work is the directory on disk and in the index, and the
\* patch set has just been loaded
RegenerateCall(state, target_rebase, root_rebase, commits, hash, head, work) ==
    LET patches == CHOOSE l \in reload_files(work).lists : TRUE
    IN [pc |-> "start", result |-> "none", err_state |-> "none",
        state |-> state, target_rebase |-> target_rebase,
        root_rebase |-> root_rebase,
        commits |-> commits, hash |-> hash, git_ver |-> Version_2,
        head |-> head, head_dir |-> TRUE,
        dir |-> work, index |-> work, patches |-> patches,
        next |-> 0, k |-> 0, index_no |-> 0,
        removed |-> {}, written |-> {}, trivial |-> {},
        start |-> [dir |-> work, index |-> work, patches |-> patches],
        run |-> 1, first |-> [dir |-> work, index |-> work],
        faulty |-> FALSE, retrying |-> FALSE,
        retried |-> [result |-> "none", dir |-> work]]

\* Clean: any commits in the patched repository; the committed patches come
\* from earlier commits and an earlier or the same tool version; the working
\* copy holds them as committed or as rendered by the present version
InitRegenerateClean ==
    \E prev \in SeqsUpTo(EarlierCommits, MaxCommits),
       cur \in SeqsUpTo(Commits, MaxCommits),
       head_ver \in Versions, hash \in Hashes :
       \E work_ver \in {head_ver, Version_2} :
          rg = RegenerateCall("Clean", NoRebase, NoRebase, cur, hash,
                              GeneratedDir(prev, "a", head_ver),
                              GeneratedDir(prev, "a", work_ver))

\* any other state of the patched repository; in the rebase states the
\* patched repository's rebase is at operation target_rebase, and the
\* containing repository has no rebase in progress or one at root_rebase
InitRegenerateOther ==
    \E state \in RepositoryStates \ {"Clean"},
       prev \in SeqsUpTo(EarlierCommits, MaxCommits),
       cur \in SeqsUpTo(EarlierCommits, MaxCommits),
       head_ver \in Versions,
       target_rebase \in NoRebase..MaxCommits,
       root_rebase \in NoRebase..MaxCommits :
       /\ state \in RebaseStates => target_rebase # NoRebase
       /\ state \notin RebaseStates =>
            target_rebase = NoRebase /\ root_rebase = NoRebase
       /\ rg = RegenerateCall(state, target_rebase, root_rebase, cur, "a",
                              GeneratedDir(prev, "a", head_ver),
                              GeneratedDir(prev, "a", head_ver))

\* Clean, and the patch directory has never been committed: it is on disk,
\* empty or with patches of an earlier run, and the HEAD tree has no entry
\* for it
InitRegenerateUncommitted ==
    \E prev \in SeqsUpTo(EarlierCommits, MaxCommits),
       cur \in SeqsUpTo(Commits, MaxCommits),
       hash \in Hashes :
       rg = [RegenerateCall("Clean", NoRebase, NoRebase, cur, hash,
                            EmptyDir, GeneratedDir(prev, "a", Version_2))
               EXCEPT !.head_dir = FALSE]

InitRegenerate ==
    /\ ApplyIdle
    /\ tp = TpIdle
    /\ call = CallIdle
    /\ InitRegenerateClean \/ InitRegenerateOther \/ InitRegenerateUncommitted

Finish(r, result) == [r EXCEPT !.pc = "done", !.result = result]

AfterRemove(r, k) ==
    IF k < r.next THEN "remove"
    ELSE IF Len(r.commits) > 0 THEN "generate" ELSE "reload"

AfterGenerate(r, index_no) ==
    IF index_no < Len(r.commits) THEN "generate" ELSE "reload"

\* the match on target.state(): which patches are to be removed
StartRemoving(r, next) ==
    LET r1 == [r EXCEPT !.next = next, !.k = 0, !.index_no = 0]
    IN [r1 EXCEPT !.pc = AfterRemove(r1, 0)]

\* the variant that treats every other state like Clean
RegeneratePatchesStart_AnyState ==
    /\ rg.pc = "start"
    /\ rg' = IF rg.state \in RebaseStates
             THEN IF rg.root_rebase = NoRebase THEN Finish(rg, "Git")
                  ELSE IF rg.root_rebase > Len(rg.patches) THEN Finish(rg, "panic")
                  ELSE StartRemoving(rg, rg.root_rebase)
             ELSE StartRemoving(rg, Len(rg.patches))
    /\ UNCHANGED <<applyVars, tp, call>>

\* the rebase is opened on patch_set.root_repo, the containing repository;
\* patches[..next] panics when next exceeds the number of patches
RegeneratePatchesStart ==
    /\ rg.pc = "start"
    /\ rg' = IF rg.state \in RebaseStates
             THEN IF rg.root_rebase = NoRebase THEN Finish(rg, "Git")
                  ELSE IF rg.root_rebase > Len(rg.patches) THEN Finish(rg, "panic")
                  ELSE StartRemoving(rg, rg.root_rebase)
             ELSE IF rg.state = "Clean"
             THEN StartRemoving(rg, Len(rg.patches))
             ELSE [Finish(rg, "PatchedRepoInvalidState") EXCEPT !.err_state = rg.state]
    /\ UNCHANGED <<applyVars, tp, call>>

\* std::fs::remove_file for the next patch of the loop
RegenerateRemovePatch ==
    /\ rg.pc = "remove"
    /\ LET path == rg.patches[rg.k + 1].path
       IN rg' = IF path \notin DOMAIN rg.dir THEN Finish(rg, "Io")
                ELSE [rg EXCEPT !.dir = RemoveFile(@, path),
                                !.removed = @ \cup {path},
                                !.k = @ + 1,
                                !.pc = AfterRemove(rg, rg.k + 1)]
    /\ UNCHANGED <<applyVars, tp, call>>

\* the variant that numbers the patches from 0
RegenerateGenerate_FromZero ==
    /\ rg.pc = "generate"
    /\ LET commit == rg.commits[rg.index_no + 1]
           patch_name == patch_file_name(commit.summary, rg.index_no)
       IN rg' = IF commit.body = NoChanges THEN Finish(rg, "PatchFormatFailed")
                ELSE [rg EXCEPT !.dir = WriteFile(@, patch_name,
                                           patch_text(commit, rg.hash, rg.git_ver)),
                                !.written = @ \cup {patch_name},
                                !.index_no = @ + 1,
                                !.pc = AfterGenerate(rg, rg.index_no + 1)]
    /\ UNCHANGED <<applyVars, tp, call>>

\* PatchFormatter::generate for the next commit of the walk; cleanup_patch
\* fails on a message without a diff
RegenerateGenerate ==
    /\ rg.pc = "generate"
    /\ LET commit == rg.commits[rg.index_no + 1]
           patch_name == patch_file_name(commit.summary, rg.index_no + 1)
       IN rg' = IF commit.body = NoChanges THEN Finish(rg, "PatchFormatFailed")
                ELSE [rg EXCEPT !.dir = WriteFile(@, patch_name,
                                           patch_text(commit, rg.hash, rg.git_ver)),
                                !.written = @ \cup {patch_name},
                                !.index_no = @ + 1,
                                !.pc = AfterGenerate(rg, rg.index_no + 1)]
    /\ UNCHANGED <<applyVars, tp, call>>

RegenerateReload ==
    /\ rg.pc = "reload"
    /\ LET loaded == reload_files(rg.dir)
       IN IF ~loaded.ok THEN rg' = Finish(rg, "InvalidPatchName")
          ELSE \E l \in loaded.lists : rg' = [rg EXCEPT !.patches = l, !.pc = "stage"]
    /\ UNCHANGED <<applyVars, tp, call>>

\* the variant that leaves the index alone
RegenerateStage_Skip ==
    /\ rg.pc = "stage"
    /\ rg' = [rg EXCEPT !.pc = "filter"]
    /\ UNCHANGED <<applyVars, tp, call>>

\* PatchFileSet::stage_changes: the index entries of the patch directory
\* become the files on disk
RegenerateStage ==
    /\ rg.pc = "stage"
    /\ rg' = [rg EXCEPT !.index = rg.dir, !.pc = "filter"]
    /\ UNCHANGED <<applyVars, tp, call>>

\* the delta of diff_tree_to_index for a path of the index
HasDelta(r, path) == path \notin DOMAIN r.head \/ r.head[path] # r.index[path]

\* the verdict of the loop body for one patch: "none" without a delta
PatchVerdict(r, path) ==
    IF path \notin DOMAIN r.dir THEN "Io"
    ELSE IF Len(r.dir[path]) < 2 THEN "panic"
    ELSE IF path \notin DOMAIN r.index \/ ~HasDelta(r, path) THEN "none"
    ELSE is_trivial_patch_change(
             delta_text(path \in DOMAIN r.head,
                        IF path \in DOMAIN r.head THEN r.head[path] ELSE <<>>,
                        r.index[path]),
             git_version(r.dir[path]))

\* head_tree.get_path for the patch directory, which fails when the HEAD
\* tree has no such entry, then the loop over patch_set.patches that
\* collects the trivial patches
RegenerateFilter ==
    /\ rg.pc = "filter"
    /\ LET paths == {rg.patches[i].path : i \in DOMAIN rg.patches}
           failed == {i \in DOMAIN rg.patches :
                        PatchVerdict(rg, rg.patches[i].path) \in {"Io", "panic"}}
           trivial == {p \in paths : PatchVerdict(rg, p) = "true"}
       IN rg' = IF ~rg.head_dir THEN Finish(rg, "Git")
                ELSE IF failed # {}
                THEN Finish(rg, PatchVerdict(rg,
                        rg.patches[CHOOSE i \in failed : \A j \in failed : i <= j].path))
                ELSE IF trivial = {} THEN Finish(rg, "Ok")
                ELSE [rg EXCEPT !.trivial = trivial, !.pc = "checkout"]
    /\ UNCHANGED <<applyVars, tp, call>>

\* the variant whose checkout restores the index entry and leaves the file
RegenerateCheckout_IndexOnly ==
    /\ rg.pc = "checkout"
    /\ LET restore(d) == [n \in DOMAIN d |->
                            IF n \in rg.trivial /\ n \in DOMAIN rg.head
                            THEN rg.head[n] ELSE d[n]]
       IN rg' = [Finish(rg, "Ok") EXCEPT !.index = restore(rg.index)]
    /\ UNCHANGED <<applyVars, tp, call>>

\* checkout_head, forced, for the trivial paths: index and file are as in HEAD
RegenerateCheckout ==
    /\ rg.pc = "checkout"
    /\ LET restore(d) == [n \in DOMAIN d |->
                            IF n \in rg.trivial /\ n \in DOMAIN rg.head
                            THEN rg.head[n] ELSE d[n]]
       IN rg' = [Finish(rg, "Ok") EXCEPT !.dir = restore(rg.dir),
                                         !.index = restore(rg.index)]
    /\ UNCHANGED <<applyVars, tp, call>>

\* after a successful run from Clean: load the patch set again and call
\* regenerate_patches once more, nothing else having changed
RegenerateAgain ==
    /\ rg.pc = "done"
    /\ rg.result = "Ok"
    /\ rg.state = "Clean"
    /\ rg.run = 1
    /\ \E l \in reload_files(rg.dir).lists :
         rg' = [rg EXCEPT !.pc = "start", !.result = "none", !.run = 2,
                          !.first = [dir |-> rg.dir, index |-> rg.index],
                          !.patches = l,
                          !.start = [dir |-> rg.dir, index |-> rg.index, patches |-> l],
                          !.next = 0, !.k = 0, !.index_no = 0,
                          !.removed = {}, !.written = {}, !.trivial = {}]
    /\ UNCHANGED <<applyVars, tp, call>>

NextRegenerate ==
    \/ RegeneratePatchesStart
    \/ RegenerateRemovePatch
    \/ RegenerateGenerate
    \/ RegenerateReload
    \/ RegenerateStage
    \/ RegenerateFilter
    \/ RegenerateCheckout
    \/ RegenerateAgain

SpecRegenerate == InitRegenerate /\ [][NextRegenerate]_vars

(***************************************************************************)
(* regenerate_patches interrupted by a failure, then run again             *)
(***************************************************************************)
\* Clean or Rebase, with both repositories' rebases at the same operation;
\* the steps of the first run may fail
InitRecover ==
    /\ ApplyIdle
    /\ tp = TpIdle
    /\ call = CallIdle
    /\ \E state \in {"Clean", "Rebase"},
          prev \in SeqsUpTo(EarlierCommits, MaxCommits),
          cur \in SeqsUpTo(EarlierCommits, MaxCommits),
          head_ver \in Versions,
          rebase \in NoRebase..MaxCommits :
          /\ state = "Clean" <=> rebase = NoRebase
          /\ rebase <= Len(prev)
          /\ rg = [RegenerateCall(state, rebase, rebase, cur, "a",
                                  GeneratedDir(prev, "a", head_ver),
                                  GeneratedDir(prev, "a", head_ver))
                      EXCEPT !.faulty = TRUE]

\* the error a failing call of the present step is turned into
StepError(pc) ==
    CASE pc = "remove" -> "Io"
      [] pc = "generate" -> "PatchFormatFailed"
      [] pc = "reload" -> "Io"
      [] pc = "stage" -> "Git"
      [] pc = "filter" -> "Git"
      [] pc = "checkout" -> "Git"

\* a transient failure of the file system or the backend in the step that
\* is about to run: remove_file, the write of a patch, read_dir, the staging,
\* the diff against HEAD or the checkout returns an error
RegenerateFault ==
    /\ rg.faulty
    /\ rg.pc \in {"remove", "generate", "reload", "stage", "filter", "checkout"}
    /\ rg' = Finish(rg, StepError(rg.pc))
    /\ UNCHANGED <<applyVars, tp, call>>

\* after the failed run: the cause is gone, the patch set is loaded from the
\* directory as it is, and regenerate_patches is called again
RegenerateRetry ==
    /\ rg.pc = "done"
    /\ rg.faulty
    /\ rg.result \notin {"Ok", "none"}
    /\ reload_files(rg.dir).ok
    /\ \E l \in reload_files(rg.dir).lists :
         rg' = [rg EXCEPT !.pc = "start", !.result = "none", !.run = 2,
                          !.faulty = FALSE, !.retrying = TRUE,
                          !.first = [dir |-> rg.dir, index |-> rg.index],
                          !.patches = l,
                          !.next = 0, !.k = 0, !.index_no = 0,
                          !.removed = {}, !.written = {}, !.trivial = {}]
    /\ UNCHANGED <<applyVars, tp, call>>

\* for comparison: the same call on the directory, index and patch set of
\* before the failed run, without any failure
RegenerateReference ==
    /\ rg.pc = "done"
    /\ rg.retrying
    /\ rg.run = 2
    /\ rg' = [rg EXCEPT !.pc = "start", !.result = "none", !.run = 3,
                        !.retried = [result |-> rg.result, dir |-> rg.dir],
                        !.dir = rg.start.dir, !.index = rg.start.index,
                        !.patches = rg.start.patches,
                        !.next = 0, !.k = 0, !.index_no = 0,
                        !.removed = {}, !.written = {}, !.trivial = {}]
    /\ UNCHANGED <<applyVars, tp, call>>

NextRecover ==
    \/ RegeneratePatchesStart
    \/ RegenerateRemovePatch
    \/ RegenerateGenerate
    \/ RegenerateReload
    \/ RegenerateStage
    \/ RegenerateFilter
    \/ RegenerateCheckout
    \/ RegenerateFault
    \/ RegenerateRetry
    \/ RegenerateReference

SpecRecover == InitRecover /\ [][NextRecover]_vars

(***************************************************************************)
(* CommitMessage::parse and patch_file_name on their own                   *)
(***************************************************************************)
MaxSummaryLen == 4

LF == "\n"

\* char::is_whitespace for the characters of the model
is_whitespace(c) == c \in Whitespace \cup {LF}

\* CommitMessage::parse and summary(): the summary runs from the first
\* character that is not whitespace to the first line feed; slicing panics
\* when the line feed comes first
CommitMessage_summary(full) ==
    LET solid == {i \in 1..Len(full) : ~is_whitespace(full[i])}
        feeds == {i \in 1..Len(full) : full[i] = LF}
        summary_start == (CHOOSE i \in solid : \A j \in solid : i <= j) - 1
        summary_end == IF feeds = {} THEN Len(full)
                       ELSE (CHOOSE i \in feeds : \A j \in feeds : i <= j) - 1
    IN IF full = <<>> THEN [result |-> "EmptyMessage", summary |-> <<>>]
       ELSE IF solid = {} THEN [result |-> "BlankMessage", summary |-> <<>>]
       ELSE IF summary_start > summary_end THEN [result |-> "panic", summary |-> <<>>]
       ELSE [result |-> "Ok",
             summary |-> SubSeq(full, summary_start + 1, summary_end)]

\* the asserted names of test_patch_file_name
TestPatchFileNames ==
    {[full |->
       <<"P", "O", "M", " ", "C", "h", "a", "n", "g", "e", "s">>,
     patch_no |-> 1,
     name |->
       <<"0", "0", "0", "1", "-", "P", "O", "M", "-", "C", "h", "a", "n",
         "g", "e", "s", ".", "p", "a", "t", "c", "h">>],
     [full |->
       <<"V", "e", "r", "s", "i", "o", "n", " ", "C", "o", "m", "m", "a",
         "n", "d", " ", "2", ".", "0">>,
     patch_no |-> 8,
     name |->
       <<"0", "0", "0", "8", "-", "V", "e", "r", "s", "i", "o", "n", "-",
         "C", "o", "m", "m", "a", "n", "d", "-", "2", ".", "0", ".", "p",
         "a", "t", "c", "h">>],
     [full |->
       <<"A", "d", "d", " ", "m", "e", "t", "h", "o", "d", "s", " ", "f",
         "o", "r", " ", "w", "o", "r", "k", "i", "n", "g", " ", "w", "i",
         "t", "h", " ", "a", "r", "r", "o", "w", "s", " ", "s", "t", "u",
         "c", "k", " ", "i", "n", " ", "l", "i", "v", "i", "n", "g", " ",
         "e", "n", "t", "i", "t", "i", "e", "s">>,
     patch_no |-> 20,
     name |->
       <<"0", "0", "2", "0", "-", "A", "d", "d", "-", "m", "e", "t", "h",
         "o", "d", "s", "-", "f", "o", "r", "-", "w", "o", "r", "k", "i",
         "n", "g", "-", "w", "i", "t", "h", "-", "a", "r", "r", "o", "w",
         "s", "-", "s", "t", "u", "c", "k", "-", "i", "n", "-", "l", "i",
         "v", "i", "n", "g", "-", ".", "p", "a", "t", "c", "h">>],
     [full |->
       <<"U", "s", "e", " ", "A", "S", "M", " ", "f", "o", "r", " ", "e",
         "v", "e", "n", "t", " ", "e", "x", "e", "c", "u", "t", "o", "r",
         "s", ".">>,
     patch_no |-> 22,
     name |->
       <<"0", "0", "2", "2", "-", "U", "s", "e", "-", "A", "S", "M", "-",
         "f", "o", "r", "-", "e", "v", "e", "n", "t", "-", "e", "x", "e",
         "c", "u", "t", "o", "r", "s", ".", "p", "a", "t", "c", "h">>],
     [full |->
       <<"E", "n", "t", "i", "t", "y", " ", "A", "d", "d", "T", "o", "/",
         "R", "e", "m", "o", "v", "e", "F", "r", "o", "m", " ", "W", "o",
         "r", "l", "d", " ", "E", "v", "e", "n", "t", "s">>,
     patch_no |-> 28,
     name |->
       <<"0", "0", "2", "8", "-", "E", "n", "t", "i", "t", "y", "-", "A",
         "d", "d", "T", "o", "-", "R", "e", "m", "o", "v", "e", "F", "r",
         "o", "m", "-", "W", "o", "r", "l", "d", "-", "E", "v", "e", "n",
         "t", "s", ".", "p", "a", "t", "c", "h">>],
     [full |->
       <<"A", "d", "d", " ", "M", "e", "t", "a", "d", "a", "t", "a", "S",
         "t", "o", "r", "e", "B", "a", "s", "e", ".", "r", "e", "m", "o",
         "v", "e", "A", "l", "l", "(", "P", "l", "u", "g", "i", "n", ")">>,
     patch_no |-> 31,
     name |->
       <<"0", "0", "3", "1", "-", "A", "d", "d", "-", "M", "e", "t", "a",
         "d", "a", "t", "a", "S", "t", "o", "r", "e", "B", "a", "s", "e",
         ".", "r", "e", "m", "o", "v", "e", "A", "l", "l", "-", "P", "l",
         "u", "g", "i", "n", ".", "p", "a", "t", "c", "h">>],
     [full |->
       <<"M", "a", "k", "e", " ", "/", "p", "l", "u", "g", "i", "n", "s",
         " ", "l", "i", "s", "t", " ", "a", "l", "p", "h", "a", "b", "e",
         "t", "i", "c", "a", "l">>,
     patch_no |-> 64,
     name |->
       <<"0", "0", "6", "4", "-", "M", "a", "k", "e", "-", "p", "l", "u",
         "g", "i", "n", "s", "-", "l", "i", "s", "t", "-", "a", "l", "p",
         "h", "a", "b", "e", "t", "i", "c", "a", "l", ".", "p", "a", "t",
         "c", "h">>],
     [full |->
       <<"E", "n", "d", "e", "r", "m", "a", "n", ".", "t", "e", "l", "e",
         "p", "o", "r", "t", "R", "a", "n", "d", "o", "m", "l", "y", "(",
         ")">>,
     patch_no |-> 94,
     name |->
       <<"0", "0", "9", "4", "-", "E", "n", "d", "e", "r", "m", "a", "n",
         ".", "t", "e", "l", "e", "p", "o", "r", "t", "R", "a", "n", "d",
         "o", "m", "l", "y", ".", "p", "a", "t", "c", "h">>],
     [full |->
       <<"L", "o", "c", "a", "t", "i", "o", "n", ".", "i", "s", "C", "h",
         "u", "n", "k", "L", "o", "a", "d", "e", "d", "(", ")", " ", "A",
         "P", "I">>,
     patch_no |-> 96,
     name |->
       <<"0", "0", "9", "6", "-", "L", "o", "c", "a", "t", "i", "o", "n",
         ".", "i", "s", "C", "h", "u", "n", "k", "L", "o", "a", "d", "e",
         "d", "-", "A", "P", "I", ".", "p", "a", "t", "c", "h">>],
     [full |->
       <<"A", "d", "d", " ", "W", "o", "r", "l", "d", ".", "g", "e", "t",
         "E", "n", "t", "i", "t", "y", "(", "U", "U", "I", "D", ")", " ",
         "A", "P", "I">>,
     patch_no |-> 116,
     name |->
       <<"0", "1", "1", "6", "-", "A", "d", "d", "-", "W", "o", "r", "l",
         "d", ".", "g", "e", "t", "E", "n", "t", "i", "t", "y", "-", "U",
         "U", "I", "D", "-", "A", "P", "I", ".", "p", "a", "t", "c", "h">>],
     [full |->
       <<"P", "e", "r", "f", "o", "r", "m", "a", "n", "c", "e", " ", "&",
         " ", "C", "o", "n", "c", "u", "r", "r", "e", "n", "c", "y", " ",
         "I", "m", "p", "r", "o", "v", "e", "m", "e", "n", "t", "s", " ",
         "t", "o", " ", "P", "e", "r", "m", "i", "s", "s", "i", "o", "n",
         "s">>,
     patch_no |-> 149,
     name |->
       <<"0", "1", "4", "9", "-", "P", "e", "r", "f", "o", "r", "m", "a",
         "n", "c", "e", "-", "C", "o", "n", "c", "u", "r", "r", "e", "n",
         "c", "y", "-", "I", "m", "p", "r", "o", "v", "e", "m", "e", "n",
         "t", "s", "-", "t", "o", "-", "P", "e", "r", "m", "i", "s", "s",
         "i", "o", "n", "s", ".", "p", "a", "t", "c", "h">>],
     [full |->
       <<"H", "e", "r", "e", "'", "s", " ", "J", "o", "h", "n", "n", "y",
         "!">>,
     patch_no |-> 159,
     name |->
       <<"0", "1", "5", "9", "-", "H", "e", "r", "e", "-", "s", "-", "J",
         "o", "h", "n", "n", "y", ".", "p", "a", "t", "c", "h">>],
     [full |->
       <<"A", "d", "d", " ", "a", "b", "i", "l", "i", "t", "y", " ", "t",
         "o", " ", "c", "o", "n", "f", "i", "g", "u", "r", "e", " ", "f",
         "r", "o", "s", "t", "e", "d", "_", "i", "c", "e", " ", "p", "r",
         "o", "p", "e", "r", "t", "i", "e", "s">>,
     patch_no |-> 95,
     name |->
       <<"0", "0", "9", "5", "-", "A", "d", "d", "-", "a", "b", "i", "l",
         "i", "t", "y", "-", "t", "o", "-", "c", "o", "n", "f", "i", "g",
         "u", "r", "e", "-", "f", "r", "o", "s", "t", "e", "d", "_", "i",
         "c", "e", "-", "p", "r", "o", "p", "e", "r", "t", "i", "e", "s",
         ".", "p", "a", "t", "c", "h">>],
     [full |->
       <<"[", "s", "y", "s", "]", " ", "D", "e", "c", "l", "a", "r", "e",
         " ", "D", "u", "c", "k", "L", "o", "g", "i", "c", "-", "i", "n",
         "t", "e", "r", "n", "a", "l", " ", "m", "e", "t", "h", "o", "d",
         "s", " ", "f", "o", "r", " ", "l", "i", "s", "t">>,
     patch_no |-> 1,
     name |->
       <<"0", "0", "0", "1", "-", "s", "y", "s", "-", "D", "e", "c", "l",
         "a", "r", "e", "-", "D", "u", "c", "k", "L", "o", "g", "i", "c",
         "-", "i", "n", "t", "e", "r", "n", "a", "l", "-", "m", "e", "t",
         "h", "o", "d", "s", "-", "f", "o", "r", "-", "l", "i", "s", "t",
         ".", "p", "a", "t", "c", "h">>]}

MessageChars == {"a", "-", ".", "_", "(", ")", " ", LF}

PatchNumbers == {1, 159, 9999}

InitPatchFileName ==
    /\ ApplyIdle
    /\ tp = TpIdle
    /\ rg = RgIdle
    /\ \/ \E full \in SeqsUpTo(MessageChars, MaxSummaryLen), n \in PatchNumbers :
            call = [pc |-> "call", full |-> full, patch_no |-> n,
                    result |-> "none", summary |-> <<>>,
                    unbounded |-> <<>>, name |-> <<>>]
       \/ \E t \in TestPatchFileNames :
            call = [pc |-> "call", full |-> t.full, patch_no |-> t.patch_no,
                    result |-> "none", summary |-> <<>>,
                    unbounded |-> <<>>, name |-> <<>>]

\* CommitMessage::parse(full).unwrap().patch_file_name(patch_no); unbounded
\* is sanitized_name just before truncate(MAX_LENGTH)
CallPatchFileName ==
    /\ call.pc = "call"
    /\ LET parsed == CommitMessage_summary(call.full)
       IN call' = IF parsed.result # "Ok"
                  THEN [call EXCEPT !.pc = "done", !.result = parsed.result]
                  ELSE [call EXCEPT
                          !.pc = "done", !.result = "Ok",
                          !.summary = parsed.summary,
                          !.unbounded = strip_leading(strip_trailing(
                                            sanitize(parsed.summary, <<>>))),
                          !.name = patch_file_name(parsed.summary, call.patch_no)]
    /\ UNCHANGED <<applyVars, tp, rg>>

NextPatchFileName == CallPatchFileName

SpecPatchFileName == InitPatchFileName /\ [][NextPatchFileName]_vars

(***************************************************************************)
(* PatchFileSet::load on a directory listing                               *)
(***************************************************************************)
MaxEntries == 3

\* names a patch directory may hold: patches, two of them with the same
\* number, a patch with an empty description, a number written with a sign,
\* a number of one and of five digits, and files that are not patches
EntryNames ==
    {<<"0", "0", "0", "2", "-", "a", ".", "p", "a", "t", "c", "h">>,
     <<"0", "0", "1", "0", "-", "b", ".", "p", "a", "t", "c", "h">>,
     <<"0", "0", "0", "1", "-", "c", ".", "p", "a", "t", "c", "h">>,
     <<"0", "0", "0", "2", "-", "z", ".", "p", "a", "t", "c", "h">>,
     <<"0", "0", "0", "3", "-", ".", "p", "a", "t", "c", "h">>,
     <<"+", "0", "0", "9", "-", "d", ".", "p", "a", "t", "c", "h">>,
     <<"1", "-", "a", ".", "p", "a", "t", "c", "h">>,
     <<"0", "0", "0", "1", "2", "-", ".", "p", "a", "t", "c", "h">>,
     <<"0", "0", "0", "1", "-", "c", ".", "t", "x", "t">>,
     <<"0", "0", "0", "4", "-", "e", ".", "p", "a", "t", "c", "h", ".", "o", "r", "i", "g">>}

\* the loop of reload_files over the entries in the order read_dir yields
\* them; the first name that does not parse ends it
RECURSIVE parse_entries(_, _)
parse_entries(listing, patches) ==
    IF listing = <<>> THEN [result |-> "Ok", name |-> <<>>, patches |-> patches]
    ELSE LET file_name == Head(listing)
             parsed == PatchFile_parse(file_name)
         IN IF ~ends_with(file_name, Str_patch_ext)
            THEN parse_entries(Tail(listing), patches)
            ELSE IF ~parsed.ok
            THEN [result |-> "InvalidPatchName", name |-> file_name,
                  patches |-> patches]
            ELSE parse_entries(Tail(listing),
                               Append(patches, [index |-> parsed.index,
                                                path |-> file_name]))

\* the variant that leaves the patches in directory order
RECURSIVE sort_by_key_unsorted(_)
sort_by_key_unsorted(patches) ==
    IF patches = <<>> THEN <<>>
    ELSE Append(sort_by_key_unsorted(SubSeq(patches, 1, Len(patches) - 1)),
                patches[Len(patches)])

\* Vec::sort_by_key(|patch| patch.index): a stable sort
RECURSIVE sort_by_key(_)
sort_by_key(patches) ==
    IF patches = <<>> THEN <<>>
    ELSE LET sorted == sort_by_key(SubSeq(patches, 1, Len(patches) - 1))
             last == patches[Len(patches)]
             before == {i \in DOMAIN sorted : sorted[i].index <= last.index}
             at == IF before = {} THEN 0
                   ELSE CHOOSE i \in before : \A j \in before : j <= i
         IN SubSeq(sorted, 1, at) \o <<last>> \o SubSeq(sorted, at + 1, Len(sorted))

\* PatchFileSet::reload_files on a listing
reload_listing(listing) ==
    LET parsed == parse_entries(listing, <<>>)
    IN IF parsed.result = "Ok"
       THEN [parsed EXCEPT !.patches = sort_by_key(parsed.patches)]
       ELSE parsed

\* the listings of up to n distinct names
Listings(names, n) ==
    {l \in SeqsUpTo(names, n) : \A i, j \in DOMAIN l : i # j => l[i] # l[j]}

InitLoad ==
    /\ ApplyIdle
    /\ tp = TpIdle
    /\ rg = RgIdle
    /\ \E listing \in Listings(EntryNames, MaxEntries) :
         call = [pc |-> "call", listing |-> listing, result |-> "none",
                 name |-> <<>>, patches |-> <<>>]

CallLoad ==
    /\ call.pc = "call"
    /\ LET loaded == reload_listing(call.listing)
       IN call' = [call EXCEPT !.pc = "done", !.result = loaded.result,
                               !.name = loaded.name, !.patches = loaded.patches]
    /\ UNCHANGED <<applyVars, tp, rg>>

NextLoad == CallLoad

SpecLoad == InitLoad /\ [][NextLoad]_vars

(***************************************************************************)
(* EmailMessage::parse                                                     *)
(* A message is a sequence of lines (str::lines), a line a sequence of     *)
(* characters                                                              *)
(***************************************************************************)
MaxBodyLines == 5

Str_header_prefix ==
    <<"F", "r", "o", "m", " ">>
Str_header_suffix ==
    <<" ", "M", "o", "n", " ", "S", "e", "p", " ", "1", "7", " ", "0", "0",
      ":", "0", "0", ":", "0", "0", " ", "2", "0", "0", "1">>
Str_author_prefix ==
    <<"F", "r", "o", "m", ":", " ">>
Str_date_prefix ==
    <<"D", "a", "t", "e", ":", " ">>
Str_subject_prefix ==
    <<"S", "u", "b", "j", "e", "c", "t", ":", " ">>
Str_patch_tag ==
    <<"[", "P", "A", "T", "C", "H", "]", " ">>
Str_diff_prefix ==
    <<"d", "i", "f", "f", " ", "-", "-", "g", "i", "t", " ", "a", "/">>
Str_b_prefix ==
    <<" ", "b", "/">>

\* the number of leading characters of s that lie in the set
RECURSIVE leading(_, _)
leading(s, set) ==
    IF s = <<>> \/ Head(s) \notin set THEN 0 ELSE 1 + leading(Tail(s), set)

\* the number of leading characters of s that lie outside the set
RECURSIVE leading_not(_, _)
leading_not(s, set) ==
    IF s = <<>> \/ Head(s) \in set THEN 0 ELSE 1 + leading_not(Tail(s), set)

drop(s, n) == SubSeq(s, n + 1, Len(s))

\* the 0-based offset of the first occurrence of needle in s, or -1
find_str(s, needle) ==
    LET at == Occurrences(s, needle)
    IN IF at = {} THEN -1 ELSE (CHOOSE i \in at : \A j \in at : i <= j) - 1

\* all_consuming(parse_header_line): at most 40 hex digits are taken
parse_header_line(line) ==
    /\ starts_with(line, Str_header_prefix)
    /\ LET input == drop(line, Len(Str_header_prefix))
           sha == Min(leading(input, HexDigits), 40)
       IN sha >= 1 /\ drop(input, sha) = Str_header_suffix

\* all_consuming(parse_author_line)
parse_author_line(line) ==
    LET input == drop(line, Len(Str_author_prefix))
        name_len == find_str(input, <<" ", "<">>)
        after_name == drop(input, name_len + 2)
        email_len == find_str(after_name, <<">">>)
    IN IF /\ starts_with(line, Str_author_prefix)
          /\ name_len >= 1
          /\ email_len >= 1
          /\ drop(after_name, email_len + 1) = <<>>
       THEN [ok |-> TRUE, name |-> SubSeq(input, 1, name_len),
             email |-> SubSeq(after_name, 1, email_len)]
       ELSE [ok |-> FALSE, name |-> <<>>, email |-> <<>>]

\* all_consuming(parse_date_line): text without '+' or '-', one sign, digits
parse_date_line(line) ==
    LET input == drop(line, Len(Str_date_prefix))
        text == leading_not(input, {"+", "-"})
        offset == drop(input, text + 1)
    IN IF /\ starts_with(line, Str_date_prefix)
          /\ text >= 1
          /\ Len(input) > text /\ input[text + 1] \in {"+", "-"}
          /\ offset # <<>>
          /\ leading(offset, Range(Digits)) = Len(offset)
       THEN [ok |-> TRUE, date |-> input]
       ELSE [ok |-> FALSE, date |-> <<>>]

\* all_consuming(parse_subject_line): the tag is optional, the rest may be empty
parse_subject_line(line) ==
    LET input == drop(line, Len(Str_subject_prefix))
    IN IF ~starts_with(line, Str_subject_prefix)
       THEN [ok |-> FALSE, subject |-> <<>>]
       ELSE IF starts_with(input, Str_patch_tag)
       THEN [ok |-> TRUE, subject |-> drop(input, Len(Str_patch_tag))]
       ELSE [ok |-> TRUE, subject |-> input]

parse_begin_diff_line(line) ==
    /\ starts_with(line, Str_diff_prefix)
    /\ find_str(drop(line, Len(Str_diff_prefix)), Str_b_prefix) >= 0

\* the lines a message of the model is made of
Line_header ==
    <<"F", "r", "o", "m", " ", "a", "b", "c", " ", "M", "o", "n", " ", "S",
      "e", "p", " ", "1", "7", " ", "0", "0", ":", "0", "0", ":", "0", "0",
      " ", "2", "0", "0", "1">>
Line_header_bad ==
    <<"F", "r", "o", "m", " ", "x", "y", "z">>
Line_author ==
    <<"F", "r", "o", "m", ":", " ", "A", " ", "<", "a", "@", "b", ">">>
Line_author_bad ==
    <<"F", "r", "o", "m", ":", " ", "A">>
Line_date ==
    <<"D", "a", "t", "e", ":", " ", "M", "o", "n", ",", " ", "1", "7", " ",
      "S", "e", "p", " ", "2", "0", "0", "1", " ", "0", "0", ":", "0", "0",
      ":", "0", "0", " ", "+", "0", "0", "0", "0">>
Line_date_no_offset ==
    <<"D", "a", "t", "e", ":", " ", "M", "o", "n", ",", " ", "1", "7", " ",
      "S", "e", "p", " ", "2", "0", "0", "1", " ", "0", "0", ":", "0", "0",
      ":", "0", "0">>
Line_date_not_rfc ==
    <<"D", "a", "t", "e", ":", " ", "n", "o", "o", "n", " ", "+", "1">>
Line_subject ==
    <<"S", "u", "b", "j", "e", "c", "t", ":", " ", "[", "P", "A", "T", "C",
      "H", "]", " ", "s">>
Line_subject_bare ==
    <<"S", "u", "b", "j", "e", "c", "t", ":", " ">>
Line_subject_tag_only ==
    <<"S", "u", "b", "j", "e", "c", "t", ":", " ", "[", "P", "A", "T", "C",
      "H", "]", " ">>
Line_subject_bad ==
    <<"S", "u", "b", "j", ":", " ", "s">>
Line_diff ==
    <<"d", "i", "f", "f", " ", "-", "-", "g", "i", "t", " ", "a", "/", "x",
      " ", "b", "/", "x">>
Date_rfc2822 ==
    <<"M", "o", "n", ",", " ", "1", "7", " ", "S", "e", "p", " ", "2", "0",
      "0", "1", " ", "0", "0", ":", "0", "0", ":", "0", "0", " ", "+", "0",
      "0", "0", "0">>

\* OffsetDateTime::parse(date, Rfc2822) succeeds on the dates listed here
ValidRfc2822 == {Date_rfc2822}

ParseResult(result, expected, actual) ==
    [result |-> result, expected |-> expected, actual |-> actual,
     author_name |-> <<>>, author_email |-> <<>>,
     message_summary |-> <<>>, message_tail |-> <<>>]

\* the first loop: lines up to the first empty one are appended to the
\* summary; the result is what is left after the empty line
RECURSIVE summary_loop(_, _)
summary_loop(lines, message_summary) ==
    IF lines = <<>> THEN [eof |-> TRUE, summary |-> message_summary, lines |-> <<>>]
    ELSE IF Head(lines) = <<>>
    THEN [eof |-> FALSE, summary |-> message_summary, lines |-> Tail(lines)]
    ELSE summary_loop(Tail(lines), message_summary \o Head(lines))

\* the variant that stops at the first empty line
RECURSIVE tail_loop_first_blank(_, _)
tail_loop_first_blank(lines, trailing_message) ==
    IF lines = <<>> THEN [eof |-> TRUE, tail |-> trailing_message]
    ELSE IF Head(lines) = <<>>
    THEN [eof |-> FALSE, tail |-> trailing_message]
    ELSE tail_loop_first_blank(Tail(lines), trailing_message \o Head(lines) \o <<LF>>)

\* the second loop: an empty line ends it when the next line begins a diff,
\* and is kept as a line feed otherwise
RECURSIVE tail_loop(_, _)
tail_loop(lines, trailing_message) ==
    IF lines = <<>> THEN [eof |-> TRUE, tail |-> trailing_message]
    ELSE IF Head(lines) = <<>>
    THEN IF Len(lines) >= 2 /\ parse_begin_diff_line(lines[2])
         THEN [eof |-> FALSE, tail |-> trailing_message]
         ELSE tail_loop(Tail(lines), Append(trailing_message, LF))
    ELSE tail_loop(Tail(lines), trailing_message \o Head(lines) \o <<LF>>)

\* EmailMessage::parse; diff_ok: whether git2::Diff::from_buffer accepts the text
EmailMessage_parse(lines, diff_ok) ==
    LET author == parse_author_line(lines[2])
        date == parse_date_line(lines[3])
        subject == parse_subject_line(lines[4])
        first == summary_loop(drop(lines, 4), subject.subject)
        second == tail_loop(first.lines, <<>>)
        trailing_message == IF ends_with(second.tail, <<LF>>)
                            THEN SubSeq(second.tail, 1, Len(second.tail) - 1)
                            ELSE second.tail
    IN IF ~diff_ok THEN ParseResult("Git", "none", <<>>)
       ELSE IF Len(lines) < 1 THEN ParseResult("UnexpectedEof", "header", <<>>)
       ELSE IF ~parse_header_line(lines[1])
       THEN ParseResult("InvalidHeader", "header", lines[1])
       ELSE IF Len(lines) < 2 THEN ParseResult("UnexpectedEof", "author", <<>>)
       ELSE IF ~author.ok THEN ParseResult("InvalidHeader", "author", lines[2])
       ELSE IF Len(lines) < 3 THEN ParseResult("UnexpectedEof", "date", <<>>)
       ELSE IF ~date.ok THEN ParseResult("InvalidHeader", "date", lines[3])
       ELSE IF Len(lines) < 4 THEN ParseResult("UnexpectedEof", "subject", <<>>)
       ELSE IF ~subject.ok THEN ParseResult("InvalidHeader", "subject", lines[4])
       ELSE IF first.eof THEN ParseResult("UnexpectedEof", "diff after subject", <<>>)
       ELSE IF second.eof THEN ParseResult("UnexpectedEof", "diff after message", <<>>)
       ELSE IF date.date \notin ValidRfc2822
       THEN ParseResult("InvalidDate", "none", date.date)
       ELSE [result |-> "Ok", expected |-> "none", actual |-> <<>>,
             author_name |-> author.name, author_email |-> author.email,
             message_summary |-> first.summary,
             message_tail |-> trailing_message]

HeaderChoices ==
    <<{Line_header, Line_header_bad},
      {Line_author, Line_author_bad},
      {Line_date, Line_date_no_offset, Line_date_not_rfc},
      {Line_subject, Line_subject_bare, Line_subject_tag_only, Line_subject_bad}>>

BodyLines == {<<>>, <<"t">>, Line_diff}

\* the texts handed to parse: up to four header lines, each right or wrong,
\* and after four of them any lines
ParseInputs ==
    {h \in SeqsUpTo(UNION Range(HeaderChoices), 4) :
        \A i \in DOMAIN h : h[i] \in HeaderChoices[i]}

InitParse ==
    /\ ApplyIdle
    /\ tp = TpIdle
    /\ rg = RgIdle
    /\ \E h \in ParseInputs, b \in SeqsUpTo(BodyLines, MaxBodyLines),
          diff_ok \in BOOLEAN :
         /\ Len(h) < 4 => b = <<>>
         /\ call = [pc |-> "call", lines |-> h \o b, diff_ok |-> diff_ok,
                    parsed |-> ParseResult("none", "none", <<>>)]

CallParse ==
    /\ call.pc = "call"
    /\ call' = [call EXCEPT !.pc = "done",
                            !.parsed = EmailMessage_parse(call.lines, call.diff_ok)]
    /\ UNCHANGED <<applyVars, tp, rg>>

NextParse == CallParse

SpecParse == InitParse /\ [][NextParse]_vars

(***************************************************************************)
(* apply_commit on a file that has drifted from the patch's original       *)
(***************************************************************************)
MaxBaseLen == 3

DriftLines == {"c", "x", "q"}

\* hunks with one line of context on one or both sides of the change
DriftHunkLines ==
    {<<<<" ", "c">>, <<"-", "x">>, <<"+", "y">>>>,
     <<<<" ", "c">>, <<"+", "y">>, <<" ", "x">>>>,
     <<<<"-", "x">>, <<"+", "y">>, <<" ", "q">>>>}

\* a checkout whose file a has any content, and a message with one Modified
\* delta for a whose hunk header names any line
InitDrift ==
    /\ \E base \in SeqsUpTo(DriftLines, MaxBaseLen),
          start \in 1..(MaxBaseLen + 1), lines \in DriftHunkLines :
         LET tree == [EmptyTree EXCEPT ![Path_a] =
                          [content |-> base, mode |-> FileModeBlob]]
         IN /\ repo = mkRepo(<<mkCommit(tree, <<>>, Sig0, <<"s">>)>>, tree)
            /\ msg = [NoMessage EXCEPT !.deltas =
                        <<mkDelta("Modified", Path_a, Path_a, FALSE, TRUE,
                                  <<[start |-> start, lines |-> lines]>>,
                                  FileModeBlob)>>]
    /\ ac = IdleFrame
    /\ pre = repo
    /\ origin = NoOrigin
    /\ faults = FALSE
    /\ tp = TpIdle
    /\ rg = RgIdle
    /\ call = CallIdle

SpecDrift == InitDrift /\ [][NextApply]_vars

(***************************************************************************)
(* Claims about apply_commit                                               *)
(***************************************************************************)
Returned == ac.pc = "done"

SameCheckout ==
    /\ repo.head = pre.head
    /\ repo.commits = pre.commits
    /\ repo.index = pre.index
    /\ repo.worktree = pre.worktree

\* C1: formatting a commit C against its parent P, parsing the text and
\* applying it to a checkout of P succeeds and leaves a HEAD commit whose
\* tree is C's tree: same paths, same contents, same file modes.
\* (Stated for commits that change at least one file and hold no binary
\* content, the commits the patch format can carry.)
TextTree(t) == \A p \in RelPaths : ~is_binary(t[p].content)

C1_RoundTripTree ==
    (/\ Returned
     /\ origin.tree # HeadTree(pre)
     /\ TextTree(origin.tree) /\ TextTree(HeadTree(pre)))
    => /\ ac.result = "Ok"
       /\ HeadTree(repo) = origin.tree

\* what the k-th delta does on its own against the base tree
DeltaError(k) == apply_delta(msg.deltas[k], ac.tree, <<>>, TRUE).err

DeltaErrorKinds ==
    {"BinaryDelta", "MissingOriginalFile", "UnexpectedDeltaStatus",
     "FailParseGitDelta", "FailApplyPatch", "UnexpectedGit"}

\* C2: when apply_delta fails for the k-th delta, apply_commit returns
\* FailDelta at once: no later delta is processed, HEAD, the index and the
\* working tree are as before the call and no commit is created; and no
\* failing delta is ever passed over.
C2_FailDeltaAborts ==
    /\ ac.result = "FailDelta" =>
         /\ Returned
         /\ SameCheckout
         /\ ac.delta_idx < Len(msg.deltas)
         /\ Len(ac.new_tree) <= ac.delta_idx
         /\ ac.cause \in DeltaErrorKinds
         /\ ac.cause \in {DeltaError(ac.delta_idx + 1), "UnexpectedGit"}
    /\ \A k \in 1..ac.delta_idx : DeltaError(k) = "none"

C2_Witness ==
    /\ ac.result = "FailDelta"
    /\ ac.cause = "FailApplyPatch"
    /\ ac.delta_idx = 1
    /\ Len(msg.deltas) = 2
    /\ repo.blob_writes > pre.blob_writes

HasAbsolutePath(d) == is_absolute(d.old_path) \/ is_absolute(d.new_path)

BackendFailed ==
    \/ ac.result = "UnexpectedGit"
    \/ ac.result = "FailBuildTree"
    \/ ac.result = "FailDelta" /\ ac.cause = "UnexpectedGit"

\* C3: a message with an absolute old or new path in any delta, at any
\* position and of any status, is rejected with ForbiddenAbsolutePath, and
\* no blob has been written by the call when it is rejected.
C3_AbsolutePathBeforeBlobWrite ==
    (/\ Returned
     /\ ~BackendFailed
     /\ \E k \in DOMAIN msg.deltas : HasAbsolutePath(msg.deltas[k]))
    => /\ ac.result = "ForbiddenAbsolutePath"
       /\ repo.blob_writes = pre.blob_writes

\* C4: whenever apply_commit returns an error, whatever step failed, no new
\* commit exists and HEAD points to the same commit as before the call.
C4_ErrorLeavesNoCommit ==
    (Returned /\ ac.result # "Ok") =>
        /\ repo.commits = pre.commits
        /\ repo.head = pre.head

\* the deltas that edit path p: a Deleted delta edits its old path, any
\* other delta its new path
Touches(d, p) == IF d.status = "Deleted" THEN d.old_path = p ELSE d.new_path = p

\* the entry the message leaves at path p of the base tree
ExpectedEntry(base, deltas, p) ==
    LET ks == {k \in DOMAIN deltas : Touches(deltas[k], p)}
    IN IF ks = {} THEN base[p]
       ELSE LET d == deltas[CHOOSE k \in ks : \A j \in ks : j <= k]
                from == IF d.status = "Added" \/ d.old_path = NoPath
                        THEN <<>> ELSE base[d.old_path].content
            IN IF d.status = "Deleted" THEN NoEntry
               ELSE [content |-> apply_bytes(from, d.hunks).content,
                     mode |-> FileModeBlob]

\* C5: when apply_commit returns Ok exactly one commit was created; its only
\* parent is the old HEAD commit, its tree is the index of before the call
\* with every delta's edit applied in order, its author and committer carry
\* the parsed name, email, timestamp and offset, its message is the summary,
\* then a blank line and the tail when there is a tail; HEAD points to it and
\* the index and working tree equal its tree.
C5_OkCreatesTheCommit ==
    ac.result = "Ok" =>
        /\ Len(repo.commits) = Len(pre.commits) + 1
        /\ SubSeq(repo.commits, 1, Len(pre.commits)) = pre.commits
        /\ repo.head = Len(repo.commits)
        /\ LET c == repo.commits[repo.head]
           IN /\ c.parents = <<pre.head>>
              /\ \A p \in RelPaths : c.tree[p] = ExpectedEntry(pre.index, msg.deltas, p)
              /\ \A who \in {c.author, c.committer} :
                    /\ who.name = msg.author.name
                    /\ who.email = msg.author.email
                    /\ who.time = msg.date.unix_timestamp
                    /\ who.offset = msg.date.offset_minutes
              /\ c.message[1] = msg.message_summary
              /\ msg.message_tail = <<>> => Len(c.message) = 1
              /\ msg.message_tail # <<>> =>
                    /\ c.message[2] = ""
                    /\ SubSeq(c.message, 3, Len(c.message)) = msg.message_tail
              /\ repo.index = c.tree
              /\ repo.worktree = c.tree

C5_Witness ==
    /\ ac.result = "Ok"
    /\ Len(msg.deltas) = 2
    /\ msg.deltas[1].status = "Deleted"
    /\ msg.deltas[2].status = "Added"
    /\ msg.message_tail # <<>>
    /\ pre.index # HeadTree(pre)

\* the 0-based places of a file at which the lines a hunk expects occur
MatchingPlaces(base, lines) ==
    LET want == pre_image(lines)
    IN {p \in 0..(Len(base) - Len(want)) :
          SubSeq(base, p + 1, p + Len(want)) = want}

\* the file with the hunk's removals and additions made at place p
PatchedAt(base, lines, p) ==
    SubSeq(base, 1, p) \o post_image(lines)
        \o SubSeq(base, p + Len(pre_image(lines)) + 1, Len(base))

NamePart(name) == SubSeq(name, 6, Len(name) - Len(Str_patch_ext))

NameChars == AsciiLetters \cup Range(Digits) \cup {".", "_", "-"}

\* the 1-based positions at which a '(' is directly followed by a ')'
ParenPairs(summary) == Occurrences(summary, <<"(", ")">>)

\* C12: for every summary accepted by CommitMessage::parse and every n the
\* name is the 4-digit zero-padded n, '-', a sanitized part, '.patch'; the
\* sanitized part holds only ASCII letters, digits, '.', '_' and '-', never
\* two adjacent '-', no character for an adjacent '(' ')' pair, and at most
\* 52 characters; the names asserted by test_patch_file_name are produced.
C12_PatchFileNameShape ==
    (call.pc = "done" /\ call.result = "Ok") =>
        LET name == call.name
            part == NamePart(name)
        IN /\ Len(name) >= 5 + Len(Str_patch_ext)
           /\ \A i \in 1..4 : name[i] \in Range(Digits)
           /\ digits_value(SubSeq(name, 1, 4), 0) = call.patch_no
           /\ name[5] = "-"
           /\ ends_with(name, Str_patch_ext)
           /\ \A i \in DOMAIN part : part[i] \in NameChars
           /\ \A i \in 1..(Len(part) - 1) : ~(part[i] = "-" /\ part[i + 1] = "-")
           /\ Len(part) <= 52
           /\ \A i \in ParenPairs(call.summary) :
                sanitize(call.summary, <<>>) =
                    sanitize(SubSeq(call.summary, i + 2, Len(call.summary)),
                             sanitize(SubSeq(call.summary, 1, i - 1), <<>>))
           /\ \A t \in TestPatchFileNames :
                (call.full = t.full /\ call.patch_no = t.patch_no) => name = t.name

\* the asserted name that is cut at 52 characters
C12_Witness ==
    /\ call.pc = "done" /\ call.result = "Ok"
    /\ call.patch_no = 20
    /\ Len(call.unbounded) > 52
    /\ Len(NamePart(call.name)) = 52

\* C13: before the truncation to 52 characters the sanitized part has no
\* leading '-' or '.' and no trailing '-' or '.'; for a summary made only of
\* '.' or only of characters that are not kept it is empty.
C13_NoLeadingOrTrailingDotOrDash ==
    (call.pc = "done" /\ call.result = "Ok") =>
        LET part == call.unbounded
        IN /\ part # <<>> =>
                /\ part[1] \notin {"-", "."}
                /\ part[Len(part)] \notin {"-", "."}
           /\ (\A i \in DOMAIN call.summary : call.summary[i] = ".") => part = <<>>
           /\ (\A i \in DOMAIN call.summary :
                  call.summary[i] \notin NameChars \ {"-"}) => part = <<>>

\* the entries of a listing whose names end in '.patch'
PatchEntries(listing) ==
    {listing[i] : i \in {j \in DOMAIN listing : ends_with(listing[j], Str_patch_ext)}}

\* the decimal value of four digits
FourDigitValue(name) ==
    LET digit(i) == CHOOSE d \in 0..9 : Digits[d + 1] = name[i]
    IN 1000 * digit(1) + 100 * digit(2) + 10 * digit(3) + digit(4)

\* C14: after a successful load the patches are in non-decreasing order of
\* their sequence numbers as integers, whatever order the directory listing
\* had, and they are the '.patch' entries of the listing.
C14_LoadedPatchesSorted ==
    (call.pc = "done" /\ call.result = "Ok") =>
        /\ \A i, j \in DOMAIN call.patches :
             i < j => call.patches[i].index <= call.patches[j].index
        /\ {call.patches[i].path : i \in DOMAIN call.patches}
             = PatchEntries(call.listing)
        /\ Len(call.patches) = Cardinality(PatchEntries(call.listing))

\* three patches listed in descending order, one of them written with a
\* sign so that it sorts first as text and last as a number
C14_Witness ==
    /\ call.pc = "done" /\ call.result = "Ok"
    /\ Len(call.patches) = 3
    /\ Len(call.listing) = 3
    /\ PatchFile_parse(call.listing[1]).index > PatchFile_parse(call.listing[2]).index
    /\ PatchFile_parse(call.listing[2]).index > PatchFile_parse(call.listing[3]).index
    /\ call.listing[1][1] = "+"

\* four ASCII decimal digits, '-', any text, '.patch'
WellFormedPatchName(name) ==
    /\ Len(name) >= 5 + Len(Str_patch_ext)
    /\ \A i \in 1..4 : name[i] \in Range(Digits)
    /\ name[5] = "-"
    /\ ends_with(name, Str_patch_ext)

\* C15: load ignores every entry whose name does not end in '.patch' and
\* succeeds if and only if every '.patch' entry is four ASCII decimal
\* digits, '-', any text, '.patch'; then each index is the decimal value of
\* the four digits; otherwise it fails with InvalidPatchName naming a
\* '.patch' entry that has not that form.
C15_LoadAcceptsExactlyFourDigitNames ==
    call.pc = "done" =>
        LET entries == PatchEntries(call.listing)
        IN /\ call.result = "Ok" <=> \A n \in entries : WellFormedPatchName(n)
           /\ call.result = "Ok" =>
                /\ {call.patches[i].path : i \in DOMAIN call.patches} = entries
                /\ \A i \in DOMAIN call.patches :
                     call.patches[i].index = FourDigitValue(call.patches[i].path)
           /\ call.result # "Ok" =>
                /\ call.result = "InvalidPatchName"
                /\ call.name \in entries
                /\ ~WellFormedPatchName(call.name)

Parsed == call.pc = "done" /\ call.parsed.result # "Git"

HeaderLabels == <<"header", "author", "date", "subject">>

HeaderLineOk(k, line) ==
    CASE k = 1 -> parse_header_line(line)
      [] k = 2 -> parse_author_line(line).ok
      [] k = 3 -> parse_date_line(line).ok
      [] k = 4 -> parse_subject_line(line).ok

\* what is wrong with the k-th header line, if anything
HeaderFault(lines, k) ==
    IF Len(lines) < k THEN ParseResult("UnexpectedEof", HeaderLabels[k], <<>>)
    ELSE IF ~HeaderLineOk(k, lines[k])
    THEN ParseResult("InvalidHeader", HeaderLabels[k], lines[k])
    ELSE IF k = 3 /\ parse_date_line(lines[k]).date \notin ValidRfc2822
    THEN ParseResult("InvalidDate", "none", parse_date_line(lines[k]).date)
    ELSE ParseResult("none", "none", <<>>)

FaultyHeaders(lines) == {k \in 1..4 : HeaderFault(lines, k).result # "none"}

\* C16: the four header lines are checked in the order header, author,
\* date, subject; the first one that is missing gives UnexpectedEof with its
\* label, that does not match its grammar gives InvalidHeader with its label
\* and the line, and a Date line that matches the grammar but is no RFC 2822
\* date gives InvalidDate with its text.
C16_HeaderErrorsInOrder ==
    (Parsed /\ FaultyHeaders(call.lines) # {}) =>
        LET k == CHOOSE i \in FaultyHeaders(call.lines) :
                    \A j \in FaultyHeaders(call.lines) : i <= j
            fault == HeaderFault(call.lines, k)
        IN /\ call.parsed.result = fault.result
           /\ call.parsed.expected = fault.expected
           /\ call.parsed.actual = fault.actual

\* the 1-based positions, among the lines after the summary's blank line, of
\* the blank lines directly followed by a line that begins a diff
Terminators(rest) ==
    {i \in 1..(Len(rest) - 1) : rest[i] = <<>> /\ parse_begin_diff_line(rest[i + 1])}

\* lines joined by line feeds
RECURSIVE Join(_)
Join(lines) ==
    IF lines = <<>> THEN <<>>
    ELSE IF Len(lines) = 1 THEN Head(lines)
    ELSE Head(lines) \o <<LF>> \o Join(Tail(lines))

\* the lines after the first blank line that follows the subject line
AfterSummary(lines) ==
    LET blanks == {i \in 5..Len(lines) : lines[i] = <<>>}
    IN IF blanks = {} THEN [found |-> FALSE, rest |-> <<>>]
       ELSE [found |-> TRUE,
             rest |-> drop(lines, CHOOSE i \in blanks : \A j \in blanks : i <= j)]

\* C17: the message tail is the lines between the blank line that ends the
\* summary and the first blank line directly followed by a diff line, joined
\* by line feeds, blank lines in between kept; without such a terminating
\* blank line the parse fails with UnexpectedEof.
C17_TailUpToBlankLineBeforeDiff ==
    (Parsed /\ \A k \in 1..4 : Len(call.lines) >= k /\ HeaderLineOk(k, call.lines[k])
            /\ AfterSummary(call.lines).found) =>
        LET rest == AfterSummary(call.lines).rest
            ends == Terminators(rest)
        IN /\ ends = {} => /\ call.parsed.result = "UnexpectedEof"
                           /\ call.parsed.expected = "diff after message"
           /\ ends # {} =>
                /\ call.parsed.result \in {"Ok", "InvalidDate"}
                /\ call.parsed.result = "Ok" =>
                     call.parsed.message_tail =
                        Join(SubSeq(rest, 1,
                               (CHOOSE i \in ends : \A j \in ends : i <= j) - 1))

\* a tail that ends with a kept blank line
C17_Witness ==
    /\ Parsed /\ call.parsed.result = "Ok"
    /\ call.parsed.message_tail = <<"t", LF>>
    /\ Len(call.lines) = 9

\* C18: every successfully parsed message has a non-empty summary.
C18_SummaryNonEmpty ==
    (call.pc = "done" /\ call.parsed.result = "Ok") =>
        call.parsed.message_summary # <<>>

(***************************************************************************)
(* Claims about the trivial-change filter and regenerate_patches           *)
(***************************************************************************)
RegenerateReturned == rg.pc = "done"

\* the added and removed lines of a diff that match no trivial pattern
ChangedLines(diff) ==
    SelectSeq(diff, LAMBDA line :
        line # <<>> /\ line[1] \in CHANGE_MARKERS /\ ~is_trivial_line(line))

\* the old version line replaced by the new one, and nothing else
OnlyVersionReplaced ==
    ChangedLines(tp.diff) = << <<"-">> \o tp.old_ver, <<"+">> \o tp.git_ver >>

FooterPayloads == {<<>>, Str_separator, tp.old_ver, tp.git_ver}

HasContentChange ==
    \E i \in DOMAIN ChangedLines(tp.diff) :
        payload(ChangedLines(tp.diff)[i]) \notin FooterPayloads

\* C7: is_trivial_patch_change returns true when the added and removed lines
\* are only the old version line replaced by git_ver (plus trivial-pattern
\* lines), and false for every diff with an added or removed line that is
\* neither a trivial-pattern line nor part of the version footer.
C7_TrivialIffOnlyVersionChurn ==
    tp.pc = "done" =>
        /\ OnlyVersionReplaced => tp.result = "true"
        /\ HasContentChange => tp.result = "false"

\* C6: when regenerate_patches succeeds from Clean and is run again with the
\* patch set reloaded and nothing else changed, the patch directory after the
\* second run has the same file names and the same contents as after the
\* first run.
C6_RegenerateIdempotent ==
    (rg.pc = "done" /\ rg.run = 2 /\ rg.result = "Ok") => rg.dir = rg.first.dir

\* a second run in which one patch was restored from HEAD as trivial and
\* another one was kept as regenerated
C6_Witness ==
    /\ rg.pc = "done" /\ rg.run = 2 /\ rg.result = "Ok"
    /\ \E f \in DOMAIN rg.dir :
         /\ f \in DOMAIN rg.head
         /\ rg.dir[f] = rg.head[f]
         /\ git_version(rg.dir[f]) # rg.git_ver
    /\ \E f \in DOMAIN rg.dir :
         /\ f \in DOMAIN rg.head
         /\ rg.dir[f] # rg.head[f]

InvalidStates == RepositoryStates \ ({"Clean"} \cup RebaseStates)

\* C8: in any state other than Clean, Rebase and RebaseInteractive
\* regenerate_patches returns PatchedRepoInvalidState carrying the state, and
\* no patch file has been deleted or written, the index and the patch set
\* are unchanged; the error is returned in no other state.
C8_InvalidStateRejectedUntouched ==
    /\ (rg.pc \notin {"idle", "start"} /\ rg.state \in InvalidStates) =>
         /\ rg.pc = "done"
         /\ rg.result = "PatchedRepoInvalidState"
         /\ rg.err_state = rg.state
         /\ rg.dir = rg.start.dir
         /\ rg.removed = {} /\ rg.written = {}
         /\ rg.index = rg.start.index
         /\ rg.patches = rg.start.patches
    /\ (rg.pc # "idle" /\ rg.result = "PatchedRepoInvalidState") =>
         rg.state \in InvalidStates

C8_Witness ==
    /\ rg.pc = "done"
    /\ rg.result = "PatchedRepoInvalidState"
    /\ rg.state = "RebaseMerge"
    /\ Len(rg.patches) = 2

\* C9: in Rebase or RebaseInteractive state, with the patched repository's
\* rebase at operation k, a run that returns Ok has deleted exactly the first
\* k patch files of the loaded set, and every patch file at position k or
\* later is still there with its name and content.
C9_RebaseRemovesReplayedPrefix ==
    (/\ rg.pc = "done" /\ rg.result = "Ok"
     /\ rg.state \in RebaseStates
     /\ rg.target_rebase <= Len(rg.start.patches))
    => /\ rg.removed =
            {rg.start.patches[i].path : i \in 1..rg.target_rebase}
       /\ \A i \in (rg.target_rebase + 1)..Len(rg.start.patches) :
            LET path == rg.start.patches[i].path
            IN /\ path \in DOMAIN rg.dir
               /\ rg.dir[path] = rg.start.dir[path]

\* C10: after Ok from Clean with a freshly loaded patch set and commits
\* c1..cn, the directory holds exactly n .patch files, the one of ci is named
\* patch_file_name(summary(ci), i), the sequence numbers are exactly 1..n,
\* and no earlier patch file survives under a name that was not regenerated.
C10_CleanRunLeavesOnePatchPerCommit ==
    (rg.pc = "done" /\ rg.result = "Ok" /\ rg.state = "Clean") =>
        LET n == Len(rg.commits)
            names == PatchNames(rg.dir)
        IN /\ Cardinality(names) = n
           /\ names = {patch_file_name(rg.commits[i].summary, i) : i \in 1..n}
           /\ {PatchFile_parse(f).index : f \in names} = 1..n
           /\ \A f \in names : PatchFile_parse(f).ok
           /\ \A f \in PatchNames(rg.start.dir) : f \in names => f \in rg.written

\* a first run that removed a patch whose name no commit regenerates
C10_Witness ==
    /\ rg.pc = "done" /\ rg.result = "Ok" /\ rg.state = "Clean"
    /\ rg.run = 1
    /\ Len(rg.commits) = 2
    /\ \E f \in PatchNames(rg.start.dir) : f \notin DOMAIN rg.dir

\* C19: when regenerate_patches has failed after it started deleting or
\* writing patch files and is called again on the reloaded patch set with
\* the cause removed and the commits unchanged, it succeeds and leaves the
\* patch directory a single uninterrupted successful run would have left.
C19_RerunRecovers ==
    (rg.pc = "done" /\ rg.run = 3 /\ rg.result = "Ok") =>
        /\ rg.retried.result = "Ok"
        /\ rg.retried.dir = rg.dir

\* the remembered lines of the call, marker stripped and trimmed, oldest first
RememberedPayloads ==
    LET last == remember_changes(tp.diff, RememberLast_new)
    IN [i \in DOMAIN last |-> payload(last[i])]

\* the remembered lines are, in this order: the old version line alone or
\* between two separator lines (or neither), the version line, and
\* optionally a blank line
AllAccountedFor(lines, git_ver) ==
    LET core == IF lines # <<>> /\ lines[Len(lines)] = <<>>
                THEN SubSeq(lines, 1, Len(lines) - 1) ELSE lines
        n == Len(core)
    IN /\ n >= 1
       /\ core[n] = git_ver
       /\ \/ n = 1
          \/ n = 2
          \/ n = 4 /\ core[1] = Str_separator /\ core[3] = Str_separator

\* C20: with no remembered line the result is true; with one it is true iff
\* the line equals git_ver; with more than one it is true only if every
\* line is the version change, a blank-line change next to it, the old
\* version line or one of a pair of separator changes around it, and false
\* whenever some line is none of these.
C20_DecisionRule ==
    tp.pc = "done" =>
        LET lines == RememberedPayloads
        IN /\ Len(lines) = 0 => tp.result = "true"
           /\ Len(lines) = 1 => (tp.result = "true" <=> lines[1] = tp.git_ver)
           /\ Len(lines) = 1 => tp.result \in {"true", "false"}
           /\ Len(lines) > 1 =>
                /\ tp.result = "true" => AllAccountedFor(lines, tp.git_ver)
                /\ ~AllAccountedFor(lines, tp.git_ver) => tp.result = "false"

\* the paths of the reloaded patch set
ReloadedPaths == {rg.patches[i].path : i \in DOMAIN rg.patches}

\* what generate_all wrote at a path
Generated(path) == GeneratedDir(rg.commits, rg.hash, rg.git_ver)[path]

\* C21: after a successful regenerate_patches every patch of the reloaded
\* set classified trivial has the content of the HEAD commit, every patch
\* with a staged difference classified non-trivial keeps its generated
\* content, and without a trivial patch nothing is checked out.
C21_TrivialRevertedOthersKept ==
    (rg.pc = "done" /\ rg.result = "Ok") =>
        /\ rg.trivial \subseteq ReloadedPaths
        /\ \A p \in ReloadedPaths :
             /\ p \in rg.trivial =>
                  /\ p \in DOMAIN rg.head
                  /\ rg.dir[p] = rg.head[p]
                  /\ rg.index[p] = rg.head[p]
             /\ (p \notin rg.trivial /\ p \in rg.written) =>
                  /\ rg.dir[p] = Generated(p)
                  /\ rg.index[p] = Generated(p)
             /\ (p \notin rg.trivial /\ HasDelta(rg, p)) =>
                  PatchVerdict(rg, p) = "false"

C21_Witness ==
    /\ rg.pc = "done" /\ rg.result = "Ok"
    /\ \E p \in rg.trivial : rg.head[p] # Generated(p) /\ rg.dir[p] = rg.head[p]
    /\ \E p \in ReloadedPaths \ rg.trivial :
         HasDelta(rg, p) /\ rg.dir[p] = Generated(p)

(***************************************************************************)
(* CommitMessage::parse with summary() and body()                          *)
(***************************************************************************)
MaxMessageLen == 5

\* &full[start..end] with 0-based byte offsets: slicing panics when the
\* range is reversed or runs past the end
slice(full, start, end) ==
    IF start > end \/ end > Len(full) THEN [result |-> "panic", text |-> <<>>]
    ELSE [result |-> "Ok", text |-> SubSeq(full, start + 1, end)]

\* the least element of a non-empty set of numbers
least(S) == CHOOSE i \in S : \A j \in S : i <= j
greatest(S) == CHOOSE i \in S : \A j \in S : i >= j

\* CommitMessage::parse: the two ranges, as 0-based offsets into full
CommitMessage_ranges(full) ==
    LET solid == {i \in 1..Len(full) : ~is_whitespace(full[i])}
        feeds == {i \in 1..Len(full) : full[i] = LF}
        summary_start == least(solid) - 1
        summary_end == IF feeds = {} THEN Len(full) ELSE least(feeds) - 1
        potential_body == SubSeq(full, summary_end + 1, Len(full))
        body_solid == {i \in 1..Len(potential_body) :
                         ~is_whitespace(potential_body[i])}
        body_start == (IF body_solid = {} THEN 0 ELSE least(body_solid) - 1)
                      + summary_end
        body_end == (IF body_solid = {} THEN Len(potential_body)
                     ELSE greatest(body_solid)) + summary_end
    IN IF full = <<>> THEN [result |-> "EmptyMessage"]
       ELSE IF solid = {} THEN [result |-> "BlankMessage"]
       ELSE [result |-> "Ok",
             summary_range |-> [start |-> summary_start, end |-> summary_end],
             tail_range |-> [start |-> body_start, end |-> body_end]]

MessageTexts == SeqsUpTo({"a", "b", " ", LF}, MaxMessageLen)

InitMessage ==
    /\ ApplyIdle
    /\ tp = TpIdle
    /\ rg = RgIdle
    /\ \E full \in MessageTexts :
         call = [pc |-> "call", full |-> full, parsed |-> [result |-> "none"],
                 summary |-> [result |-> "none", text |-> <<>>],
                 body |-> [result |-> "none", text |-> <<>>]]

\* CommitMessage::parse(full), then summary() and body() of the result
CallCommitMessageParse ==
    /\ call.pc = "call"
    /\ LET parsed == CommitMessage_ranges(call.full)
       IN call' = IF parsed.result # "Ok"
                  THEN [call EXCEPT !.pc = "done", !.parsed = parsed]
                  ELSE [call EXCEPT
                          !.pc = "done", !.parsed = parsed,
                          !.summary = slice(call.full, parsed.summary_range.start,
                                            parsed.summary_range.end),
                          !.body = slice(call.full, parsed.tail_range.start,
                                         parsed.tail_range.end)]
    /\ UNCHANGED <<applyVars, tp, rg>>

NextMessage == CallCommitMessageParse

SpecMessage == InitMessage /\ [][NextMessage]_vars

\* a text without its leading and trailing whitespace, line feeds included
Trimmed(s) ==
    LET solid == {i \in 1..Len(s) : ~is_whitespace(s[i])}
    IN IF solid = {} THEN <<>> ELSE SubSeq(s, least(solid), greatest(solid))

\* the first line of a text, and what follows it
FirstLine(s) ==
    LET feeds == {i \in 1..Len(s) : s[i] = LF}
    IN IF feeds = {} THEN s ELSE SubSeq(s, 1, least(feeds) - 1)

AfterFirstLine(s) == SubSeq(s, Len(FirstLine(s)) + 1, Len(s))

WellFormedRange(r, len) == r.start <= r.end /\ r.end <= len

\* C22: for every accepted message both ranges are well formed and the
\* summary range ends no later than the body range starts, summary() is the
\* non-empty first line and body() is the text after the summary, trimmed
\* (empty when only whitespace follows).
C22_RangesSummaryAndBody ==
    (call.pc = "done" /\ call.parsed.result = "Ok") =>
        /\ WellFormedRange(call.parsed.summary_range, Len(call.full))
        /\ WellFormedRange(call.parsed.tail_range, Len(call.full))
        /\ call.parsed.summary_range.end <= call.parsed.tail_range.start
        /\ call.summary.result = "Ok"
        /\ call.summary.text # <<>>
        /\ call.summary.text = Trimmed(FirstLine(call.full))
             \/ call.summary.text = FirstLine(call.full)
        /\ call.body.result = "Ok"
        /\ call.body.text = Trimmed(AfterFirstLine(call.full))

(***************************************************************************)
(* PatchFormatter::generate_all: the revision walk and the diff of each    *)
(* walked commit                                                           *)
(***************************************************************************)
MaxGraphCommits == 3

WalkTrees == {EmptyTree, Tree_a, Tree_ab}

\* commit graphs: commit i has its parents among the commits before it
CommitGraphs ==
    UNION {{g \in [1..n -> [tree : WalkTrees, parents : SUBSET (1..n)]] :
              \A i \in 1..n : /\ g[i].parents \subseteq 1..(i - 1)
                              /\ Cardinality(g[i].parents) <= 2}
           : n \in 1..MaxGraphCommits}

RECURSIVE Ancestors(_, _)
\* a commit and everything reachable from it
Ancestors(g, c) == {c} \cup UNION {Ancestors(g, p) : p \in g[c].parents}

\* revwalk with hide(base), push_head and Sort::REVERSE | Sort::TOPOLOGICAL:
\* the commits reachable from HEAD and not from base, no commit before one
\* of its parents
revwalk(g, base, head) ==
    LET shown == Ancestors(g, head) \ Ancestors(g, base)
    IN {w \in SetToSeqs(shown) :
          \A i, j \in DOMAIN w : w[i] \in g[w[j]].parents => i < j}

\* the entries diff_tree_to_tree reports as changed, with their new state
tree_changes(last_tree, tree) ==
    [p \in {q \in RelPaths : last_tree[q] # tree[q]} |-> tree[p]]

InitWalk ==
    /\ ApplyIdle
    /\ tp = TpIdle
    /\ rg = RgIdle
    /\ \E g \in CommitGraphs :
         \E base \in DOMAIN g, head \in DOMAIN g :
            call = [pc |-> "start", result |-> "none",
                    graph |-> g, base |-> base, head |-> head,
                    walk |-> <<>>, index |-> 0, last_commit |-> base,
                    patches |-> <<>>]

\* generate_all up to its loop: the walk is set up; without a commit to walk
\* the loop body never runs and the result is Ok
GenerateAllStart ==
    /\ call.pc = "start"
    /\ \E w \in revwalk(call.graph, call.base, call.head) :
         call' = [call EXCEPT !.walk = w,
                              !.pc = IF w = <<>> THEN "done" ELSE "generate",
                              !.result = IF w = <<>> THEN "Ok" ELSE "none"]
    /\ UNCHANGED <<applyVars, tp, rg>>

\* the variant that diffs each commit against its first parent
GenerateAllStep_AgainstParent ==
    /\ call.pc = "generate"
    /\ LET commit == call.walk[call.index + 1]
           parents == call.graph[commit].parents
           last_tree == IF parents = {} THEN EmptyTree
                        ELSE call.graph[least(parents)].tree
           tree == call.graph[commit].tree
       IN call' = IF last_tree = tree
                  THEN [call EXCEPT !.pc = "done", !.result = "PatchCleanupError"]
                  ELSE [call EXCEPT
                          !.patches = Append(@, [patch_no |-> call.index + 1,
                                                 commit |-> commit,
                                                 changes |-> tree_changes(last_tree, tree)]),
                          !.index = @ + 1,
                          !.last_commit = commit,
                          !.pc = IF call.index + 1 < Len(call.walk)
                                 THEN "generate" ELSE "done",
                          !.result = IF call.index + 1 < Len(call.walk)
                                     THEN "none" ELSE "Ok"]
    /\ UNCHANGED <<applyVars, tp, rg>>

\* one iteration of the loop of generate_all: generate(index, commit), then
\* last_commit = commit; cleanup_patch fails on a patch without a diff
GenerateAllStep ==
    /\ call.pc = "generate"
    /\ LET commit == call.walk[call.index + 1]
           last_tree == call.graph[call.last_commit].tree
           tree == call.graph[commit].tree
       IN call' = IF last_tree = tree
                  THEN [call EXCEPT !.pc = "done", !.result = "PatchCleanupError"]
                  ELSE [call EXCEPT
                          !.patches = Append(@, [patch_no |-> call.index + 1,
                                                 commit |-> commit,
                                                 changes |-> tree_changes(last_tree, tree)]),
                          !.index = @ + 1,
                          !.last_commit = commit,
                          !.pc = IF call.index + 1 < Len(call.walk)
                                 THEN "generate" ELSE "done",
                          !.result = IF call.index + 1 < Len(call.walk)
                                     THEN "none" ELSE "Ok"]
    /\ UNCHANGED <<applyVars, tp, rg>>

NextWalk == GenerateAllStart \/ GenerateAllStep

SpecWalk == InitWalk /\ [][NextWalk]_vars

\* a tree with the changed entries of a patch put in place
WithChanges(tree, changes) ==
    [p \in RelPaths |-> IF p \in DOMAIN changes THEN changes[p] ELSE tree[p]]

RECURSIVE ApplyPatches(_, _)
\* the changes of the patches applied in sequence order
ApplyPatches(tree, patches) ==
    IF patches = <<>> THEN tree
    ELSE ApplyPatches(WithChanges(tree, Head(patches).changes), Tail(patches))

\* the commit walked immediately before the i-th one, the base before the first
WalkedBefore(i) == IF i = 1 THEN call.base ELSE call.walk[i - 1]

BulkNames ==
    {<<"0", "0", "0", "2", "-", "a", ".", "p", "a", "t", "c", "h">>,
     <<"0", "0", "1", "0", "-", "b", ".", "p", "a", "t", "c", "h">>,
     <<"9", "9", "9", "9", "-", "b", ".", "p", "a", "t", "c", "h">>,
     <<"1", "0", "0", "0", "0", "-", "a", ".", "p", "a", "t", "c", "h">>,
     <<"0", "0", "0", "1", "-", "c", ".", "t", "x", "t">>}

\* what reading, parsing and applying a file come to
PatchContents == {"good", "unreadable", "unparsable", "inapplicable"}

\* the byte of an ASCII character of the names above
byte(c) ==
    IF c = "+" THEN 43 ELSE IF c = "-" THEN 45 ELSE IF c = "." THEN 46
    ELSE IF c \in Range(Digits) THEN 48 + digits_value(<<c>>, 0)
    ELSE IF c = "a" THEN 97 ELSE IF c = "b" THEN 98 ELSE IF c = "c" THEN 99
    ELSE IF c = "h" THEN 104 ELSE IF c = "p" THEN 112 ELSE IF c = "t" THEN 116
    ELSE 120

\* str::cmp: byte by byte, a proper prefix first
cmp_less(a, b) ==
    LET n == Min(Len(a), Len(b))
        diff == {i \in 1..n : a[i] # b[i]}
    IN IF diff = {} THEN Len(a) < Len(b)
       ELSE byte(a[least(diff)]) < byte(b[least(diff)])

\* patch_files.sort_by(|first, second| first.patch_name.cmp(&second.patch_name));
\* the names of a directory are distinct, so the order is total
sort_by(patch_files) ==
    CHOOSE s \in SetToSeqs(Range(patch_files)) :
       \A i, j \in DOMAIN s : i < j => cmp_less(s[i].patch_name, s[j].patch_name)

\* Path::extension() == Some("patch")
has_patch_extension(file_name) ==
    ends_with(file_name, Str_patch_ext) /\ Len(file_name) > Len(Str_patch_ext)

\* str::strip_suffix(".patch")
strip_suffix(file_name) == SubSeq(file_name, 1, Len(file_name) - Len(Str_patch_ext))

InitBulk ==
    /\ ApplyIdle
    /\ tp = TpIdle
    /\ rg = RgIdle
    /\ \E listing \in Listings(BulkNames, MaxEntries) :
         \E contents \in [DOMAIN listing -> PatchContents] :
            call = [pc |-> "read", result |-> "none",
                    entries |-> [i \in DOMAIN listing |->
                                   [file_name |-> listing[i], contents |-> contents[i]]],
                    next |-> 1, patch_files |-> <<>>, applied |-> 0,
                    head |-> 0, commits |-> <<>>]

\* one iteration of the loop over the directory entries: skip, fail, or
\* buffer the parsed patch
BulkReadEntry ==
    /\ call.pc = "read"
    /\ call.next <= Len(call.entries)
    /\ LET entry == call.entries[call.next]
       IN call' =
            IF ~has_patch_extension(entry.file_name)
            THEN [call EXCEPT !.next = @ + 1]
            ELSE IF entry.contents = "unreadable"
            THEN [call EXCEPT !.pc = "done", !.result = "FailedReadPatch"]
            ELSE IF entry.contents = "unparsable"
            THEN [call EXCEPT !.pc = "done", !.result = "FailedParsePatch"]
            ELSE [call EXCEPT
                    !.next = @ + 1,
                    !.patch_files = Append(@, [patch_name |-> strip_suffix(entry.file_name),
                                               contents |-> entry.contents])]
    /\ UNCHANGED <<applyVars, tp, rg>>

\* after the last entry: sort the buffered patches
BulkSort ==
    /\ call.pc = "read"
    /\ call.next > Len(call.entries)
    /\ call' = [call EXCEPT !.patch_files = sort_by(call.patch_files),
                            !.pc = IF call.patch_files = <<>> THEN "done" ELSE "apply",
                            !.result = IF call.patch_files = <<>> THEN "Ok" ELSE "none"]
    /\ UNCHANGED <<applyVars, tp, rg>>

\* one iteration of the apply loop: apply_commit makes a commit on HEAD and
\* moves HEAD to it, or fails
BulkApplyPatch ==
    /\ call.pc = "apply"
    /\ LET patch == call.patch_files[call.applied + 1]
           last == call.applied + 1 = Len(call.patch_files)
       IN call' =
            IF patch.contents = "inapplicable"
            THEN [call EXCEPT !.pc = "done", !.result = "FailedApplyPatch"]
            ELSE [call EXCEPT
                    !.commits = Append(@, [patch_name |-> patch.patch_name,
                                           parent |-> call.head]),
                    !.head = Len(call.commits) + 1,
                    !.applied = @ + 1,
                    !.pc = IF last THEN "done" ELSE "apply",
                    !.result = IF last THEN "Ok" ELSE "none"]
    /\ UNCHANGED <<applyVars, tp, rg>>

NextBulk == BulkReadEntry \/ BulkSort \/ BulkApplyPatch

SpecBulk == InitBulk /\ [][NextBulk]_vars

\* the sequence number a patch name begins with
SequenceNumber(patch_name) ==
    digits_value(SubSeq(patch_name, 1, leading(patch_name, Range(Digits))), 0)

\* C24: apply_all applies the patches in ascending order of their sequence
\* numbers, one commit per patch, each on the commit of the patch before;
\* every .patch file is read and parsed before any is applied, so a read or
\* parse failure leaves no commit.
C24_AppliedInNumericOrder ==
    /\ \A i, j \in DOMAIN call.commits :
         i < j => SequenceNumber(call.commits[i].patch_name)
                    <= SequenceNumber(call.commits[j].patch_name)
    /\ \A i \in DOMAIN call.commits : call.commits[i].parent = i - 1
    /\ (call.pc = "done" /\ call.result = "Ok") =>
         Len(call.commits) = Len(call.patch_files)
    /\ (call.pc = "done" /\ call.result \in {"FailedReadPatch", "FailedParsePatch"}) =>
         call.commits = <<>>

\* C25: is_trivial_patch_change returns true or false for every diff and
\* every git_ver: back() is never called out of range and the assertion
\* ignored_changes <= len never fails.
C25_FilterNeverPanics ==
    tp.pc = "done" => tp.result \in {"true", "false"}

\* the deltas of the message other than the k-th leave paths a and b alone
OnlyDeltaAt(k, a, b) ==
    \A j \in DOMAIN msg.deltas \ {k} :
       /\ ~Touches(msg.deltas[j], a)
       /\ ~Touches(msg.deltas[j], b)

\* C26: after a successful apply_commit the tree of the new commit has, for
\* a Renamed delta from A to B, no entry at A and the patched content at B,
\* and for a Copied delta the entry at A unchanged.
C26_RenameRemovesOldPath ==
    ac.result = "Ok" =>
        \A k \in DOMAIN msg.deltas :
           LET d == msg.deltas[k]
               tree == repo.commits[repo.head].tree
           IN (d.status \in {"Renamed", "Copied"} /\ d.old_path # d.new_path
                 /\ OnlyDeltaAt(k, d.old_path, d.new_path)) =>
                /\ tree[d.new_path] =
                     [content |-> apply_bytes(pre.index[d.old_path].content,
                                              d.hunks).content,
                      mode |-> FileModeBlob]
                /\ d.status = "Renamed" => tree[d.old_path] = NoEntry
                /\ d.status = "Copied" => tree[d.old_path] = pre.index[d.old_path]

(***************************************************************************)
(* A commit message through PatchFormatter::generate (Email::from_diff and *)
(* cleanup_patch) and back through EmailMessage::parse                     *)
(***************************************************************************)
MaxMessageLines == 4

RECURSIVE lines(_)
\* str::lines and bstr lines: the text split at line feeds, a final line
\* feed adding no empty line
lines(text) ==
    LET feeds == {i \in 1..Len(text) : text[i] = LF}
    IN IF text = <<>> THEN <<>>
       ELSE IF feeds = {} THEN <<text>>
       ELSE <<SubSeq(text, 1, least(feeds) - 1)>>
              \o lines(SubSeq(text, least(feeds) + 1, Len(text)))

RECURSIVE unlines(_)
\* every line followed by a line feed
unlines(ls) ==
    IF ls = <<>> THEN <<>> ELSE Head(ls) \o <<LF>> \o unlines(Tail(ls))

Str_diffstat == <<"-", "-", "-">>

\* the lines Email::from_diff puts after the message: the diff statistics,
\* the diff and the version footer
EmailDiffPart ==
    <<Str_diffstat,
      <<" ", "x", " ", "|", " ", "1", " ", "+">>,
      <<" ", "1", " ", "f", "i", "l", "e", " ", "c", "h", "a", "n", "g", "e", "d">>,
      <<>>,
      Line_diff,
      <<"@", "@", " ", "-", "0", ",", "0", " ", "+", "1", " ", "@", "@">>,
      <<"+", "x">>,
      Str_separator,
      Version_2,
      <<>>>>

\* git2::Email::from_diff: the four headers, a blank line, the body with a
\* line feed after it when it has none, then the statistics and the diff
Email_from_diff(summary, body) ==
    unlines(<<Line_header, Line_author, Line_date,
              Str_subject_prefix \o Str_patch_tag \o summary, <<>>>>)
    \o body
    \o (IF body # <<>> /\ body[Len(body)] # LF THEN <<LF>> ELSE <<>>)
    \o unlines(EmailDiffPart)

\* bstr trim: leading and trailing whitespace removed, line feeds included
bstr_trim(s) ==
    LET solid == {i \in 1..Len(s) : ~is_whitespace(s[i])}
    IN IF solid = {} THEN <<>> ELSE SubSeq(s, least(solid), greatest(solid))

\* cleanup_patch
cleanup_patch(s) ==
    LET ls == lines(s)
        subjects == {i \in DOMAIN ls :
                       starts_with(ls[i], Str_subject_prefix \o <<"[", "P", "A", "T", "C", "H", "]">>)}
        subject_at == least(subjects)
        solid == {i \in (subject_at + 1)..Len(ls) :
                    \E k \in DOMAIN ls[i] : ~is_whitespace(ls[i][k])}
        message_at == IF solid = {} THEN Len(ls) + 1 ELSE least(solid)
        stats == {i \in message_at..Len(ls) : starts_with(ls[i], Str_diffstat)}
        stats_at == least(stats)
        trailing_commit_message ==
            bstr_trim(unlines(SubSeq(ls, message_at, stats_at - 1)))
        diffs == {i \in (stats_at + 1)..Len(ls) : starts_with(ls[i], Str_diff)}
        diff_at == least(diffs)
    IN IF subjects = {} THEN [result |-> "UnexpectedEof", expected |-> "Subject line", text |-> <<>>]
       ELSE IF stats = {} THEN [result |-> "UnexpectedEof", expected |-> "Diff stats", text |-> <<>>]
       ELSE IF diffs = {} THEN [result |-> "UnexpectedEof", expected |-> "Diff line", text |-> <<>>]
       ELSE [result |-> "Ok", expected |-> "none",
             text |-> unlines(SubSeq(ls, 1, subject_at))
                      \o <<LF>>
                      \o (IF trailing_commit_message # <<>>
                          THEN trailing_commit_message \o <<LF>> ELSE <<>>)
                      \o <<LF>>
                      \o unlines(SubSeq(ls, diff_at, Len(ls)))]

\* EmailMessage::full_message on text
full_message_text(message_summary, message_tail) ==
    IF message_tail # <<>> THEN message_summary \o <<LF, LF>> \o message_tail
    ELSE message_summary

MessageLines == {<<"t">>, <<>>, Str_diffstat, Str_diff}

\* commit messages whose first line is the summary
CommitMessages ==
    {Join(<<<<"s">>>> \o rest) \o end :
        rest \in SeqsUpTo(MessageLines, MaxMessageLines - 1), end \in {<<>>, <<LF>>}}

InitMessageRoundTrip ==
    /\ ApplyIdle
    /\ tp = TpIdle
    /\ rg = RgIdle
    /\ \E full \in CommitMessages :
         call = [pc |-> "generate", full |-> full, result |-> "none",
                 patch |-> <<>>, parsed |-> ParseResult("none", "none", <<>>),
                 full_message |-> <<>>]

\* PatchFormatter::generate for the message: summary() and body() go to
\* Email::from_diff, the email to cleanup_patch, the result to the patch file
GenerateMessagePatch ==
    /\ call.pc = "generate"
    /\ LET message == CommitMessage_ranges(call.full)
           summary == slice(call.full, message.summary_range.start,
                            message.summary_range.end)
           body == slice(call.full, message.tail_range.start, message.tail_range.end)
           cleaned == cleanup_patch(Email_from_diff(summary.text, body.text))
       IN call' = IF message.result # "Ok"
                  THEN [call EXCEPT !.pc = "done", !.result = "InvalidCommitMessage"]
                  ELSE IF summary.result # "Ok" \/ body.result # "Ok"
                  THEN [call EXCEPT !.pc = "done", !.result = "panic"]
                  ELSE IF cleaned.result # "Ok"
                  THEN [call EXCEPT !.pc = "done", !.result = "PatchCleanupError"]
                  ELSE [call EXCEPT !.pc = "parse", !.patch = cleaned.text]
    /\ UNCHANGED <<applyVars, tp, rg>>

\* EmailMessage::parse of the patch file, then full_message()
ParseMessagePatch ==
    /\ call.pc = "parse"
    /\ LET parsed == EmailMessage_parse(lines(call.patch), TRUE)
       IN call' = [call EXCEPT
                     !.pc = "done", !.result = parsed.result, !.parsed = parsed,
                     !.full_message = full_message_text(parsed.message_summary,
                                                        parsed.message_tail)]
    /\ UNCHANGED <<applyVars, tp, rg>>

NextMessageRoundTrip == GenerateMessagePatch \/ ParseMessagePatch

SpecMessageRoundTrip == InitMessageRoundTrip /\ [][NextMessageRoundTrip]_vars

\* C27: for every accepted commit message with summary S and trimmed body B
\* the formatter's text parses to message_summary = S and message_tail = B,
\* and full_message() is S, a blank line and B when B is not empty and S
\* alone otherwise; bodies may hold blank lines and lines that start with
\* `---` or `diff`.
C27_MessageRoundTrip ==
    call.pc = "done" =>
        LET S == FirstLine(call.full)
            B == Trimmed(AfterFirstLine(call.full))
        IN /\ call.result = "Ok"
           /\ call.parsed.message_summary = S
           /\ call.parsed.message_tail = B
           /\ call.full_message = IF B # <<>> THEN S \o <<LF, LF>> \o B ELSE S

\* C28: every name patch_file_name gives an accepted summary and a number n
\* in 1..9999 is accepted by PatchFile::parse and parses back to index n.
C28_GeneratedNameParsesBack ==
    (call.pc = "done" /\ call.result = "Ok" /\ call.patch_no \in 1..9999) =>
        /\ PatchFile_parse(call.name).ok
        /\ PatchFile_parse(call.name).index = call.patch_no

\* a short number that is padded, in front of an empty sanitized part
C28_Witness ==
    /\ call.pc = "done" /\ call.result = "Ok"
    /\ call.patch_no = 159
    /\ NamePart(call.name) = <<>>
    /\ PatchFile_parse(call.name).index = 159

\* C29: regenerate_patches returns Ok when the patch directory is on disk
\* and the HEAD tree of the containing repository has no entry for it:
\* every generated patch is kept as new, none is reverted and the filter
\* raises no error.
C29_UncommittedPatchDirIsOk ==
    (rg.pc = "done" /\ ~rg.head_dir /\ rg.state = "Clean"
        /\ \A i \in DOMAIN rg.commits : rg.commits[i].body # NoChanges) =>
        /\ rg.result = "Ok"
        /\ rg.trivial = {}
        /\ DOMAIN rg.dir = DOMAIN GeneratedDir(rg.commits, rg.hash, rg.git_ver)
        /\ \A p \in DOMAIN rg.dir : rg.dir[p] = Generated(p)

(***************************************************************************)
(* RememberLast on its own                                                 *)
(***************************************************************************)
MaxRemembered == 7

\* the capacities the program uses: 2 for the version footer, 5 for the
\* filter; 1 is the least the constructor accepts
Limits == {1, 2, RememberLimit}

Items == {"a", "b"}

InitRemember ==
    /\ ApplyIdle
    /\ tp = TpIdle
    /\ rg = RgIdle
    /\ \E limit \in Limits :
         call = [pc |-> "remember", LIMIT |-> limit, last |-> RememberLast_new,
                 history |-> <<>>]

\* one call of remember
CallRemember ==
    /\ call.pc = "remember"
    /\ Len(call.history) < MaxRemembered
    /\ \E element \in Items :
         call' = [call EXCEPT !.last = remember(call.last, element, call.LIMIT),
                              !.history = Append(@, element)]
    /\ UNCHANGED <<applyVars, tp, rg>>

NextRemember == CallRemember

SpecRemember == InitRemember /\ [][NextRemember]_vars

\* C30: after k calls of remember len() is min(k, LIMIT), as_slice() is the
\* last min(k, LIMIT) remembered items, oldest first, and back(i) for
\* i < len() is the item remembered i calls before the most recent one.
C30_RememberLastKeepsNewest ==
    call.pc = "remember" =>
        LET k == Len(call.history)
            len == Len(call.last)
        IN /\ len = Min(k, call.LIMIT)
           /\ len <= call.LIMIT
           /\ call.last = SubSeq(call.history, k - len + 1, k)
           /\ \A i \in 0..(len - 1) :
                /\ back_in_range(call.last, i)
                /\ back(call.last, i) = call.history[k - i]

\* more items remembered than fit, the oldest one gone
C30_Witness ==
    /\ call.pc = "remember"
    /\ call.LIMIT = RememberLimit
    /\ Len(call.history) = RememberLimit + 2
    /\ call.history[1] # call.history[3]
    /\ call.last[1] = call.history[3]
    /\ back(call.last, 1) # back(call.last, 0)

====
